---- MODULE Spec2Model ----
(***************************************************************************)
(* Verification engine of verity (package verify, search, database).      *)
(*                                                                         *)
(* The state is the engine built by NewEngine (its aggregator's clients    *)
(* and the airGapped flag), the two store tables the engine uses           *)
(* (analysis_results, claims) and, per VerifyText call, the locals of the  *)
(* call and of the per-claim goroutines started by verifyClaims.           *)
(*                                                                         *)
(* Conventions                                                             *)
(*   - a Go pointer or optional value is a set with zero or one element;   *)
(*   - uuid.New() is a counter (nextId), time.Now() a logical clock;       *)
(*   - float64 values are exact rationals [num, den] in lowest terms;      *)
(*   - confidence is counted in hundredths (100 is 1.0);                   *)
(*   - sha256 is an injective tagging of the text;                         *)
(*   - an external call (model completion, source search, store            *)
(*     statement) is one step whose result is drawn from the set of        *)
(*     results the callee can return; the sets are parameters of the       *)
(*     actions, so that each specification states its environment.         *)
(* Variables marked "history" record what happened and are never read by   *)
(* the modelled code.                                                      *)
(***************************************************************************)
EXTENDS Integers, Sequences, FiniteSets, Bags, TLC

\* ------------------------------------------------------------- bounds
\* VerifyText calls of one behaviour.
MaxRuns == 2
\* Distinct input texts.
NumTexts == 2
\* Claims the extractor returns for one text under Spec.
MaxClaims == 2
\* Claims handed to verifyClaims under SpecVerifyClaims.
MaxClaimsVC == 6
\* Length of the claim lists calculateAnalysis is applied to under SpecCalc.
MaxLen == 4
\* HTTP requests of one behaviour under SpecHandler.
MaxRequests == 2
\* Tokens of a model response under SpecParse.
MaxText == 4

\* ---------------------------------------------------- program constants
\* semaphore := make(chan struct{}, 5)
SemaphoreCap == 5

Runs == 1..MaxRuns
Requests == 1..MaxRequests
Texts == 1..NumTexts

\* ------------------------------------------------------------ optionals
None == {}
Some(x) == {x}
The(s) == CHOOSE x \in s : TRUE

\* ------------------------------------------------------------- float64
RECURSIVE GCD(_, _)
GCD(a, b) == IF b = 0 THEN a ELSE GCD(b, a % b)

Abs(n) == IF n < 0 THEN -n ELSE n

\* The rational n/d (d > 0) in lowest terms.
Rat(n, d) ==
    LET g == GCD(Abs(n), d)
    IN  [num |-> n \div g, den |-> d \div g]

FromInt(k) == [num |-> k, den |-> 1]
\* Each operand is evaluated once and the operation applied to its value.
FAdd(x, y) ==
    The({ Rat(a.num * b.den + b.num * a.den, a.den * b.den) : a \in {x}, b \in {y} })
FMul(x, y) ==
    The({ Rat(a.num * b.num, a.den * b.den) : a \in {x}, b \in {y} })
\* y > 0 wherever the code divides.
FDiv(x, y) ==
    The({ Rat(a.num * b.den, a.den * b.num) : a \in {x}, b \in {y} })
FLeq(x, y) == x.num * y.den <= y.num * x.den

\* ------------------------------------------------------------- models
StatusVerified == "verified"
StatusMixed == "mixed"
StatusUnsupported == "unsupported"
StatusPending == "pending"

SourceTypeEvidenceBacked == "evidence_backed"
SourceTypeModelBased == "model_based"

\* The Go zero value of a SourceType, a string or a slice.
Unset == ""
Nil == << >>

\* crypto/sha256 + hex of the input text.
Sha256Hex(t) == <<"sha256", t>>

\* ------------------------------------------------- verify.ClaimExtractor
\* What the provider's completion call gives back: an error, or a response
\* text.  A response text is described by what parseResponse makes of it: it
\* does not parse (json = FALSE) or it parses to the listed values.
ProviderError == [err |-> TRUE, json |-> FALSE, claims |-> Nil]
ExtractionGarbage == [err |-> FALSE, json |-> FALSE, claims |-> Nil]
ExtractionJSON(ecs) == [err |-> FALSE, json |-> TRUE, claims |-> ecs]

\* extractionResult.Claims with n entries whose sentence_index values are idx
\* (claim k of a text is named by its position in the model's answer).
ExtractedClaims(idx) ==
    [k \in 1..Len(idx) |-> [text |-> <<"claim", k>>, sentenceIndex |-> idx[k]]]

\* ClaimExtractor.parseResponse, after a successful json.Unmarshal: one
\* models.Claim per extracted claim with a fresh id and status pending.
NewClaims(ecs, firstId) ==
    [k \in 1..Len(ecs) |->
        [id |-> firstId + k - 1,
         text |-> ecs[k].text,
         sentenceIndex |-> ecs[k].sentenceIndex,
         status |-> StatusPending,
         confidence |-> 0,
         sourceType |-> Unset,
         evidences |-> Nil,
         reasoning |-> Nil]]

\* ClaimExtractor.Extract: (claims, err).
ExtractorExtractLenient(completion, firstId) ==
    IF completion.err \/ ~completion.json
    THEN [err |-> FALSE, claims |-> Nil]
    ELSE [err |-> FALSE, claims |-> NewClaims(completion.claims, firstId)]

ExtractorExtract(completion, firstId) ==
    IF completion.err \/ ~completion.json
    THEN [err |-> TRUE, claims |-> Nil]
    ELSE [err |-> FALSE, claims |-> NewClaims(completion.claims, firstId)]

\* -------------------------------------------------- verify.ClaimVerifier
VerdictProviderError ==
    [err |-> TRUE, json |-> FALSE, verification_status |-> "",
     confidence_score |-> 0, reasoning |-> Nil]
VerdictGarbage ==
    [err |-> FALSE, json |-> FALSE, verification_status |-> "",
     confidence_score |-> 0, reasoning |-> Nil]
VerdictJSON(word, score) ==
    [err |-> FALSE, json |-> TRUE, verification_status |-> word,
     confidence_score |-> score, reasoning |-> <<"model reasoning">>]

\* The switch on result.Status.
MapStatusUnchecked(word) == word

MapStatus(word) ==
    CASE word = "verified" -> StatusVerified
      [] word = "mixed" -> StatusMixed
      [] word = "unsupported" -> StatusUnsupported
      [] OTHER -> StatusUnsupported

VerifierFailure ==
    [status |-> StatusUnsupported, confidence |-> 0, reasoning |-> Nil, err |-> TRUE]

\* ClaimVerifier.Verify: (status, confidence, reasoning, err).
Verify(evidences, completion) ==
    IF Len(evidences) = 0
    THEN [status |-> StatusUnsupported, confidence |-> 0,
          reasoning |-> <<"No evidence found to support this claim">>,
          err |-> FALSE]
    ELSE IF completion.err \/ ~completion.json
    THEN VerifierFailure
    ELSE [status |-> MapStatus(completion.verification_status),
          confidence |-> completion.confidence_score,
          reasoning |-> completion.reasoning,
          err |-> FALSE]

\* ClaimVerifier.VerifyWithoutEvidence.
VerifyWithoutEvidence(completion) ==
    IF completion.err \/ ~completion.json
    THEN VerifierFailure
    ELSE [status |-> MapStatus(completion.verification_status),
          confidence |-> completion.confidence_score,
          reasoning |-> completion.reasoning \o <<"[Note: Verified using model knowledge only, without external evidence sources]">>,
          err |-> FALSE]

\* ------------------------------------------ search.AggregatedSearchClient
Warning(source, message) == [source |-> source, message |-> message]

Evidence(source, url) == [sourceName |-> source, sourceURL |-> url, snippet |-> "text"]

\* What one source's Search returns: an error, or one Evidence per url.
SourceOutcome(failed, urls) == [error |-> failed, urls |-> urls]
SourceEvidences(source, urls) == [j \in 1..Len(urls) |-> Evidence(source, urls[j])]

\* One iteration of the collection loop selected this event.
SourceResult(source, failed, evidences) ==
    [kind |-> "result", source |-> source, error |-> failed, evidences |-> evidences]
TimeoutEvent == [kind |-> "timeout", source |-> "search", error |-> FALSE, evidences |-> Nil]
CancelEvent == [kind |-> "cancelled", source |-> "search", error |-> FALSE, evidences |-> Nil]

\* The body of the select, applied to the events of the iterations in order.
RECURSIVE CollectErrorResets(_, _)
CollectErrorResets(events, acc) ==
    IF events = << >> THEN acc
    ELSE LET e == Head(events)
             next ==
                CASE e.kind = "result" /\ e.error ->
                        [evidences |-> Nil,
                         warnings |-> Append(acc.warnings, Warning(e.source, <<"error of", e.source>>))]
                  [] e.kind = "result" /\ ~e.error ->
                        [acc EXCEPT !.evidences = @ \o e.evidences]
                  [] e.kind = "timeout" ->
                        [acc EXCEPT !.warnings = Append(@, Warning("search", "Some sources timed out"))]
                  [] OTHER ->
                        [acc EXCEPT !.warnings = Append(@, Warning("search", "Search cancelled"))]
         IN  CollectErrorResets(Tail(events), next)

RECURSIVE CollectTimeoutSilent(_, _)
CollectTimeoutSilent(events, acc) ==
    IF events = << >> THEN acc
    ELSE LET e == Head(events)
             next ==
                CASE e.kind = "result" /\ e.error ->
                        [acc EXCEPT !.warnings = Append(@, Warning(e.source, <<"error of", e.source>>))]
                  [] e.kind = "result" /\ ~e.error ->
                        [acc EXCEPT !.evidences = @ \o e.evidences]
                  [] e.kind = "timeout" -> acc
                  [] OTHER ->
                        [acc EXCEPT !.warnings = Append(@, Warning("search", "Search cancelled"))]
         IN  CollectTimeoutSilent(Tail(events), next)

RECURSIVE Collect(_, _)
Collect(events, acc) ==
    IF events = << >> THEN acc
    ELSE LET e == Head(events)
             next ==
                CASE e.kind = "result" /\ e.error ->
                        [acc EXCEPT !.warnings = Append(@, Warning(e.source, <<"error of", e.source>>))]
                  [] e.kind = "result" /\ ~e.error ->
                        [acc EXCEPT !.evidences = @ \o e.evidences]
                  [] e.kind = "timeout" ->
                        [acc EXCEPT !.warnings = Append(@, Warning("search", "Some sources timed out"))]
                  [] OTHER ->
                        [acc EXCEPT !.warnings = Append(@, Warning("search", "Search cancelled"))]
         IN  Collect(Tail(events), next)

\* AggregatedSearchClient.Search: (evidences, warnings) for the events its
\* len(a.clients) loop iterations selected.
AggregatedSearch(cs, events) ==
    IF Len(cs) = 0
    THEN [evidences |-> Nil,
          warnings |-> <<Warning("search", "No search sources configured")>>]
    ELSE Collect(events, [evidences |-> Nil, warnings |-> Nil])

\* The event sequences of k more iterations: each pending source delivers at
\* most once (outcomes: the results a source may return), the 15 s timer
\* fires at most once, a cancelled context stays selectable.
RECURSIVE EventSeqs(_, _, _, _, _)
EventSeqs(k, pending, timer, cancel, outcomes) ==
    IF k = 0 THEN { << >> }
    ELSE UNION (
           { { <<SourceResult(s, o.error, SourceEvidences(s, o.urls))>> \o rest :
                 rest \in EventSeqs(k - 1, pending \ {s}, timer, cancel, outcomes) } :
               s \in pending, o \in outcomes }
           \cup (IF timer
                 THEN { { <<TimeoutEvent>> \o rest :
                            rest \in EventSeqs(k - 1, pending, FALSE, cancel, outcomes) } }
                 ELSE {})
           \cup (IF cancel
                 THEN { { <<CancelEvent>> \o rest :
                            rest \in EventSeqs(k - 1, pending, timer, cancel, outcomes) } }
                 ELSE {}) )

\* HasClients.
HasClientsAlways(cs) == TRUE

HasClients(cs) == Len(cs) > 0

\* ---------------------------------------------------------- verify.Engine
\* semaphore <- struct{}{} proceeds while the channel holds fewer than its
\* capacity.
CanAcquireUnbounded(held) == TRUE

CanAcquire(held) == held < SemaphoreCap

\* Which failing call makes VerifyText return its error: Extract's; the
\* errors of the store calls are logged only.
PropagatedWithSaves(stage) == stage \in {"extract", "save_analysis", "save_claims"}

PropagatedWithLookup(stage) == stage \in {"extract", "lookup"}

Propagated(stage) == stage = "extract"

\* wg.Wait() returns when the counter is zero.
WaitReturnsAtOnce(counter) == TRUE

WaitReturns(counter) == counter = 0

\* The err != nil branches of the goroutine: status and reasoning are
\* overwritten, confidence keeps the value the verifier returned.
OnVerifierErrorIgnored(v, message) == v

OnVerifierError(v, message) ==
    IF v.err
    THEN [v EXCEPT !.status = StatusUnsupported, !.reasoning = <<message>>]
    ELSE v

\* The verifier function the goroutine calls: knowledge-only when the
\* engine is air-gapped or Search returned no evidence, evidence-backed
\* otherwise.
VerifierChoiceByMode(gapped, evidences) ==
    IF gapped THEN "VerifyWithoutEvidence" ELSE "Verify"

VerifierChoice(gapped, evidences) ==
    IF gapped \/ Len(evidences) = 0 THEN "VerifyWithoutEvidence" ELSE "Verify"

VerifierCall(gapped, evidences, completion) ==
    IF VerifierChoice(gapped, evidences) = "VerifyWithoutEvidence"
    THEN VerifyWithoutEvidence(completion)
    ELSE Verify(evidences, completion)

\* The goroutine's locals after its verifier call returned v: what the three
\* branches (air-gapped, fallback, evidence-backed) leave in status,
\* confidence, reasoning, evidences and claim.SourceType.
TaskResultTaggedByMode(gapped, evidences, v) ==
    LET w == IF ~gapped /\ Len(evidences) = 0
             THEN OnVerifierError(v, "Verification error - no evidence found")
             ELSE OnVerifierError(v, "Verification error")
    IN  [status |-> w.status,
         confidence |-> w.confidence,
         reasoning |-> w.reasoning,
         evidences |-> evidences,
         sourceType |-> IF gapped THEN SourceTypeModelBased
                                  ELSE SourceTypeEvidenceBacked]

TaskResult(gapped, evidences, v) ==
    LET w == IF ~gapped /\ Len(evidences) = 0
             THEN OnVerifierError(v, "Verification error - no evidence found")
             ELSE OnVerifierError(v, "Verification error")
    IN  [status |-> w.status,
         confidence |-> w.confidence,
         reasoning |-> w.reasoning,
         evidences |-> evidences,
         sourceType |-> IF gapped \/ Len(evidences) = 0
                        THEN SourceTypeModelBased
                        ELSE SourceTypeEvidenceBacked]

\* mu.Lock(); warnings = append(warnings, searchWarnings...); mu.Unlock()
AppendWarningsLostUpdate(ws, new) == new

AppendWarnings(ws, new) == ws \o new

Finalise(claim, res) ==
    [claim EXCEPT !.status = res.status,
                  !.confidence = res.confidence,
                  !.reasoning = res.reasoning,
                  !.evidences = res.evidences,
                  !.sourceType = res.sourceType]

\* claim := &claims[idx] and the assignments through it.
WriteSlotFromFirst(cl, idx, res) == [cl EXCEPT ![idx] = Finalise(cl[1], res)]

WriteSlot(cl, idx, res) == [cl EXCEPT ![idx] = Finalise(cl[idx], res)]

\* The counting loop of calculateAnalysis.
RECURSIVE CountClaims(_, _)
CountClaims(cl, acc) ==
    IF cl = << >> THEN acc
    ELSE LET st == Head(cl).status
         IN  CountClaims(Tail(cl),
                CASE st = StatusVerified -> [acc EXCEPT !.verified = @ + 1]
                  [] st = StatusMixed -> [acc EXCEPT !.mixed = @ + 1]
                  [] st = StatusUnsupported -> [acc EXCEPT !.unsupported = @ + 1]
                  [] OTHER -> acc)

\* scoreSum := float64(verified) + float64(mixed)*0.5
\* score = (scoreSum / float64(len(claims))) * 10, and 0 for no claims.
ScoreMixedAsVerified(verified, mixed, total) ==
    IF total > 0
    THEN FMul(FDiv(FromInt(verified + mixed), FromInt(total)), FromInt(10))
    ELSE FromInt(0)

ScoreIntegerDivision(verified, mixed, total) ==
    IF total > 0
    THEN FromInt(((verified + (mixed \div 2)) \div total) * 10)
    ELSE FromInt(0)

Score(verified, mixed, total) ==
    IF total > 0
    THEN FMul(FDiv(FAdd(FromInt(verified), FMul(FromInt(mixed), Rat(1, 2))),
                   FromInt(total)),
              FromInt(10))
    ELSE FromInt(0)

\* Engine.calculateAnalysis (ProcessingTimeMs is not modelled).
calculateAnalysisSameId(docHash, cl, id, createdAt) ==
    LET n == CountClaims(cl, [verified |-> 0, mixed |-> 0, unsupported |-> 0])
    IN  [id |-> 0,
         documentHash |-> docHash,
         overallScore |-> Score(n.verified, n.mixed, Len(cl)),
         totalClaims |-> Len(cl),
         verifiedClaims |-> n.verified,
         mixedClaims |-> n.mixed,
         unsupportedClaims |-> n.unsupported,
         status |-> "completed",
         createdAt |-> createdAt]

calculateAnalysis(docHash, cl, id, createdAt) ==
    LET n == CountClaims(cl, [verified |-> 0, mixed |-> 0, unsupported |-> 0])
    IN  [id |-> id,
         documentHash |-> docHash,
         overallScore |-> Score(n.verified, n.mixed, Len(cl)),
         totalClaims |-> Len(cl),
         verifiedClaims |-> n.verified,
         mixedClaims |-> n.mixed,
         unsupportedClaims |-> n.unsupported,
         status |-> "completed",
         createdAt |-> createdAt]

\* models.VerificationResponse.
ResponseWithNotice(an, docHash, cl, warns) ==
    [id |-> an.id, documentHash |-> docHash, analysis |-> an,
     claims |-> cl, warnings |-> Append(warns, Warning("cache", "Returning cached analysis"))]

Response(an, docHash, cl, warns) ==
    [id |-> an.id, documentHash |-> docHash, analysis |-> an,
     claims |-> cl, warnings |-> warns]

\* ---------------------------------------------------- database.SQLiteStore
\* SELECT ... WHERE document_hash = ? ORDER BY created_at DESC LIMIT 1.
\* created_at values are distinct (the clock advances with every analysis).
GetAnalysisByHashNoRows(rows, hash) == None

GetAnalysisByHash(rows, hash) ==
    LET m == { k \in 1..Len(rows) : rows[k].documentHash = hash }
    IN  IF m = {} THEN None
        ELSE Some(rows[CHOOSE k \in m : \A j \in m : rows[j].createdAt <= rows[k].createdAt])

\* json.Marshal(claim.Evidences) and json.Unmarshal into c.Evidences: a nil
\* slice is written as null and read back as nil.
MarshalEvidences(ev) == [null |-> ev = Nil, items |-> ev]
UnmarshalEvidences(js) == IF js.null THEN Nil ELSE js.items

\* One row of table claims, and the Claim scanned from it.
ClaimRow(analysisID, c) ==
    [id |-> c.id, analysisId |-> analysisID, text |-> c.text,
     sentenceIndex |-> c.sentenceIndex, status |-> c.status,
     confidence |-> c.confidence, sourceType |-> c.sourceType,
     evidences |-> MarshalEvidences(c.evidences), reasoning |-> c.reasoning]

ScanClaim(row) ==
    [id |-> row.id, text |-> row.text, sentenceIndex |-> row.sentenceIndex,
     status |-> row.status, confidence |-> row.confidence,
     sourceType |-> row.sourceType,
     evidences |-> UnmarshalEvidences(row.evidences), reasoning |-> row.reasoning]

\* SaveClaims: one transaction inserting a row per claim, in order.
InsertClaims(rows, analysisID, cl) ==
    rows \o [k \in 1..Len(cl) |-> ClaimRow(analysisID, cl[k])]

\* SELECT ... WHERE analysis_id = ? ORDER BY sentence_index: every order of
\* the matching rows that is sorted by sentence_index (SQL leaves the order
\* of rows with equal keys open).
GetClaimsByAnalysis(rows, analysisID) ==
    LET m == { k \in 1..Len(rows) : rows[k].analysisId = analysisID }
        n == Cardinality(m)
        orders == { f \in [1..n -> m] :
                      /\ \A a, b \in 1..n : a # b => f[a] # f[b]
                      /\ \A a, b \in 1..n : a < b =>
                            rows[f[a]].sentenceIndex <= rows[f[b]].sentenceIndex }
    IN  { [a \in 1..n |-> ScanClaim(rows[f[a]])] : f \in orders }

\* ------------------------------------------------------- parseResponse
\* A model response is a sequence of tokens: "F" is a code fence (three
\* backticks), "{" and "}" are braces, "k" is JSON text without braces that
\* is valid where it stands (members, values), "p" is other text without
\* braces.  White space, which TrimSpace and the \s* of the fence pattern
\* drop, is not written.
Tokens == {"F", "{", "}", "k", "p"}

\* json.Unmarshal([]byte(response), &result) succeeds on a JSON object:
\* braces and JSON text, the first brace closed by the last token.
Depth(t, n) ==
    Cardinality({ k \in 1..n : t[k] = "{" }) - Cardinality({ k \in 1..n : t[k] = "}" })
IsObject(t) ==
    /\ Len(t) >= 2
    /\ \A k \in 1..Len(t) : t[k] \in {"{", "}", "k"}
    /\ t[1] = "{"
    /\ \A n \in 1..(Len(t) - 1) : Depth(t, n) >= 1
    /\ Depth(t, Len(t)) = 0

\* strings.Index and strings.LastIndex: the 0-based position, or -1.
Index(t, tok) ==
    IF \E k \in 1..Len(t) : t[k] = tok
    THEN (CHOOSE k \in 1..Len(t) : t[k] = tok /\ \A j \in 1..(k - 1) : t[j] # tok) - 1
    ELSE -1
LastIndex(t, tok) ==
    IF \E k \in 1..Len(t) : t[k] = tok
    THEN (CHOOSE k \in 1..Len(t) : t[k] = tok /\ \A j \in (k + 1)..Len(t) : t[j] # tok) - 1
    ELSE -1

\* if strings.HasPrefix(response, fence): the first match of the pattern
\* fence (json)? ([\s\S]*?) fence replaces the response by its group, the
\* text up to the next fence; without a match the response stays.
StripFence(t) ==
    IF Len(t) > 0 /\ t[1] = "F"
    THEN LET close == Index(Tail(t), "F")
         IN  IF close >= 0 THEN SubSeq(Tail(t), 1, close) ELSE t
    ELSE t

ParseFailure == [err |-> TRUE, object |-> << >>]
ParseSuccess(t) == [err |-> FALSE, object |-> t]

\* The retry on response[start : end+1].
BraceScanNever(t) == ParseFailure

BraceScan(t) ==
    LET start == Index(t, "{")
        end == LastIndex(t, "}")
    IN  IF start >= 0 /\ end > start
        THEN LET sub == SubSeq(t, start + 1, end + 1)
             IN  IF IsObject(sub) THEN ParseSuccess(sub) ELSE ParseFailure
        ELSE ParseFailure

\* ClaimExtractor.parseResponse, up to the unmarshalled object.
ExtractorParseResponse(response) ==
    LET t == StripFence(response)
    IN  IF IsObject(t) THEN ParseSuccess(t) ELSE BraceScan(t)

\* ClaimVerifier.parseResponse.
VerifierParseResponse(response) ==
    LET t == StripFence(response)
    IN  IF IsObject(t) THEN ParseSuccess(t) ELSE BraceScan(t)

\* ------------------------------------------------------------ api.Handler
\* A request body: not JSON, or a JSON object whose "text" member is missing
\* or holds a string; text 0 is the empty string, also the value
\* json.Decode leaves in req.Text when the member is missing.
EmptyText == 0
MalformedBody == [json |-> FALSE, hasText |-> FALSE, text |-> EmptyText]
BodyWithoutText == [json |-> TRUE, hasText |-> FALSE, text |-> EmptyText]
BodyWithText(t) == [json |-> TRUE, hasText |-> TRUE, text |-> t]

\* json.NewDecoder(r.Body).Decode(&req): (req.Text, err).
DecodeRequest(body) ==
    [err |-> ~body.json,
     text |-> IF body.json /\ body.hasText THEN body.text ELSE EmptyText]

StatusCreated == 201
StatusBadRequest == 400
StatusInternalServerError == 500

\* The two checks of Handler.VerifyText before the engine is called: the
\* status written, or 0 when the handler goes on to h.engine.VerifyText.
RejectionOnlyMalformed(body) ==
    IF DecodeRequest(body).err THEN StatusBadRequest ELSE 0

Rejection(body) ==
    IF DecodeRequest(body).err THEN StatusBadRequest
    ELSE IF DecodeRequest(body).text = EmptyText THEN StatusBadRequest
    ELSE 0

\* A request: not arrived, in the engine (run is the VerifyText call made for
\* it), or answered with a status.
NoRequest == [phase |-> "none", body |-> MalformedBody, text |-> EmptyText, run |-> 0, status |-> 0]

\* ------------------------------------------------------------- state
VARIABLES
    clients,       \* AggregatedSearchClient.clients: the source names
    airGapped,     \* Engine.airGapped
    analysisRows,  \* table analysis_results, in insertion order
    claimRows,     \* table claims, in insertion order
    nextId,        \* the next value uuid.New() returns
    now,           \* the next value time.Now() returns in calculateAnalysis
    pc,            \* per run: where VerifyText stands
    text,          \* per run: the text argument
    existing,      \* per run: the AnalysisResult GetAnalysisByHash returned
    claims,        \* per run: the claims slice
    tasks,         \* per run, per claim: the goroutine's position and its evidences
    semaphore,     \* per run: values held by the semaphore channel
    wg,            \* per run: the WaitGroup counter
    warnings,      \* per run: verifyClaims' warnings
    analysis,      \* per run: the result of calculateAnalysis
    resp,          \* per run: the response VerifyText returned
    hist,          \* per run, history: calls made, results seen
    search,        \* per Search call in progress: the locals of Search
    ctxDone,       \* the callers whose context is cancelled
    http,          \* per HTTP request: its body, its engine call, its response
    parse          \* the last parseResponse call: who parsed which text, the result

vars == <<clients, airGapped, analysisRows, claimRows, nextId, now, pc, text,
          existing, claims, tasks, semaphore, wg, warnings, analysis, resp, hist,
          search, ctxDone, http, parse>>

engineVars == <<clients, airGapped>>
handlerVars == <<http>>
parserVars == <<parse>>
searchVars == <<search, ctxDone>>
storeVars == <<analysisRows, claimRows>>

NoHistory ==
    [prior |-> {},          \* ids returned for the same text before this call
     stored |-> {},         \* (id, created_at) of the text's rows at the lookup
     lookupOK |-> FALSE,    \* GetAnalysisByHash returned without error
     extractCalls |-> 0,
     extractBad |-> FALSE,  \* the extraction call failed or did not parse
     extracted |-> Nil,     \* the claims Extract returned
     searchCalls |-> 0, verifyCalls |-> 0,
     saveAnalysisCalls |-> 0, saveClaimsCalls |-> 0,
     rowsWritten |-> 0,     \* rows this call inserted
     storeFailures |-> 0,   \* store calls of this call that failed
     verdicts |-> Nil,      \* per claim: what its verifier call returned
     calls |-> Nil,         \* per claim: the verifier functions called for it
     searched |-> EmptyBag, \* the warnings the Search calls returned, with multiplicity
     overtaken |-> FALSE,   \* a claim finished before one extracted earlier
     abandoned |-> FALSE,   \* a Search returned while a source had not
     timedOut |-> {}]       \* the claims whose Search selected its timer

Task(p, ev) == [pc |-> p, evidences |-> ev]

\* What a verifier call returned (v) for what the model answered (c).
NoVerdict ==
    [returned |-> FALSE, parsed |-> FALSE, err |-> FALSE, status |-> StatusPending]
Verdict(v, c) ==
    [returned |-> TRUE, parsed |-> c.json /\ ~c.err, err |-> v.err, status |-> v.status]

\* The warnings of a list, with multiplicity.
RECURSIVE BagOfSeq(_)
BagOfSeq(ws) ==
    IF ws = << >> THEN EmptyBag ELSE SetToBag({Head(ws)}) (+) BagOfSeq(Tail(ws))

InFlight(r) ==
    { i \in 1..Len(tasks[r]) : tasks[r][i].pc \in {"searching", "verifying", "releasing"} }

\* semaphore := make(chan struct{}, 5) is a local of verifyClaims: what the
\* channel the goroutines of run r send to holds.
HeldProcessWide(r) ==
    Cardinality(UNION { { <<q, i>> : i \in InFlight(q) } : q \in Runs })

Held(r) == semaphore[r]

\* ------------------------------------------------------------ actions
\* A call of Engine.VerifyText(ctx, t) enters; overlap says whether calls
\* may run concurrently.  Calls and texts are numbered in order of first use.
VerifyTextCall(r, t, overlap) ==
    /\ pc[r] = "idle"
    /\ \A q \in 1..(r - 1) : pc[q] # "idle"
    /\ \A u \in 1..(t - 1) : \E q \in Runs : text[q] = u
    /\ ~overlap => \A q \in Runs : pc[q] \in {"idle", "done", "failed"}
    /\ pc' = [pc EXCEPT ![r] = "received"]
    /\ text' = [text EXCEPT ![r] = t]
    /\ hist' = [hist EXCEPT ![r].prior =
                  { The(resp[q]).id : q \in { q \in Runs : pc[q] = "done" /\ text[q] = t } }]
    /\ UNCHANGED <<searchVars, handlerVars, parserVars, engineVars, storeVars, nextId, now, existing, claims, tasks,
                   semaphore, wg, warnings, analysis, resp>>

\* existing, err := e.store.GetAnalysisByHash(ctx, docHash); an error is
\* logged and leaves existing nil.
CacheLookup(r, storeOutcomes) ==
    /\ pc[r] = "received"
    /\ \E ok \in storeOutcomes :
         LET hash == Sha256Hex(text[r])
             found == IF ok THEN GetAnalysisByHash(analysisRows, hash) ELSE None
         IN  /\ existing' = [existing EXCEPT ![r] = found]
             /\ pc' = [pc EXCEPT ![r] =
                         IF ~ok /\ Propagated("lookup") THEN "failed"
                         ELSE IF found # None THEN "cache_hit" ELSE "extracting"]
             /\ hist' = [hist EXCEPT
                           ![r].lookupOK = ok,
                           ![r].stored =
                               { [id |-> analysisRows[k].id,
                                  createdAt |-> analysisRows[k].createdAt] :
                                 k \in { k \in 1..Len(analysisRows) :
                                           analysisRows[k].documentHash = hash } },
                           ![r].storeFailures = @ + (IF ok THEN 0 ELSE 1)]
    /\ UNCHANGED <<searchVars, handlerVars, parserVars, engineVars, storeVars, nextId, now, text, claims, tasks,
                   semaphore, wg, warnings, analysis, resp>>

\* claims, _ := e.store.GetClaimsByAnalysis(ctx, existing.ID), and the return
\* of the cached response.
CacheHitReturn(r, storeOutcomes) ==
    /\ pc[r] = "cache_hit"
    /\ \E ok \in storeOutcomes :
         \E cl \in (IF ok THEN GetClaimsByAnalysis(claimRows, The(existing[r]).id)
                          ELSE {Nil}) :
            /\ claims' = [claims EXCEPT ![r] = cl]
            /\ resp' = [resp EXCEPT ![r] =
                          Some(Response(The(existing[r]), Sha256Hex(text[r]), cl, Nil))]
            /\ hist' = [hist EXCEPT ![r].storeFailures = @ + (IF ok THEN 0 ELSE 1)]
    /\ pc' = [pc EXCEPT ![r] = "done"]
    /\ UNCHANGED <<searchVars, handlerVars, parserVars, engineVars, storeVars, nextId, now, text, existing, tasks,
                   semaphore, wg, warnings, analysis>>

\* claims, err := e.extractor.Extract(ctx, text): an error ends the call; else
\* verifyClaims starts one goroutine per claim (wg.Add(1) each) and waits.
Extract(r, completions) ==
    /\ pc[r] = "extracting"
    /\ \E c \in completions :
         LET e == ExtractorExtract(c, nextId)
             n == Len(e.claims)
         IN  IF e.err
             THEN /\ pc' = [pc EXCEPT ![r] = "failed"]
                  /\ hist' = [hist EXCEPT ![r].extractCalls = @ + 1,
                                          ![r].extractBad = c.err \/ ~c.json]
                  /\ UNCHANGED <<nextId, claims, tasks, wg>>
             ELSE /\ pc' = [pc EXCEPT ![r] = "verifying"]
                  /\ claims' = [claims EXCEPT ![r] = e.claims]
                  /\ tasks' = [tasks EXCEPT ![r] = [k \in 1..n |-> Task("queued", Nil)]]
                  /\ wg' = [wg EXCEPT ![r] = n]
                  /\ nextId' = nextId + n
                  /\ hist' = [hist EXCEPT ![r].extractCalls = @ + 1,
                                          ![r].extractBad = c.err \/ ~c.json,
                                          ![r].extracted = e.claims,
                                          ![r].verdicts = [k \in 1..n |-> NoVerdict],
                                          ![r].calls = [k \in 1..n |-> << >>]]
    /\ UNCHANGED <<searchVars, handlerVars, parserVars, engineVars, storeVars, now, text, existing, semaphore,
                   warnings, analysis, resp>>

\* semaphore <- struct{}{}; then the goroutine enters its first call: the
\* verifier (air-gapped) or the aggregator's Search.
Acquire(r, i) ==
    /\ pc[r] = "verifying"
    /\ i \in 1..Len(tasks[r])
    /\ tasks[r][i].pc = "queued"
    /\ CanAcquire(Held(r))
    /\ semaphore' = [semaphore EXCEPT ![r] = @ + 1]
    /\ tasks' = [tasks EXCEPT ![r][i].pc = IF airGapped THEN "verifying" ELSE "searching"]
    /\ hist' = [hist EXCEPT ![r].searchCalls = @ + (IF airGapped THEN 0 ELSE 1),
                            ![r].verifyCalls = @ + (IF airGapped THEN 1 ELSE 0),
                            ![r].calls[i] = IF airGapped
                                            THEN Append(@, VerifierChoice(airGapped, Nil))
                                            ELSE @]
    /\ UNCHANGED <<searchVars, handlerVars, parserVars, engineVars, storeVars, nextId, now, pc, text, existing, claims,
                   wg, warnings, analysis, resp>>

\* e.searchClient.Search returns; its warnings are appended under mu, its
\* evidences kept, and the verifier call for the claim starts.
SearchReturn(r, i, env) ==
    /\ pc[r] = "verifying"
    /\ i \in 1..Len(tasks[r])
    /\ tasks[r][i].pc = "searching"
    /\ \E events \in EventSeqs(Len(clients), { clients[k] : k \in 1..Len(clients) },
                               env.timer, env.cancel, env.sourceOutcomes) :
         LET res == AggregatedSearch(clients, events)
         IN  /\ warnings' = [warnings EXCEPT ![r] = AppendWarnings(@, res.warnings)]
             /\ tasks' = [tasks EXCEPT ![r][i] = Task("verifying", res.evidences)]
             /\ hist' = [hist EXCEPT
                           ![r].verifyCalls = @ + 1,
                           ![r].calls[i] = Append(@, VerifierChoice(airGapped, res.evidences)),
                           ![r].searched = @ (+) BagOfSeq(res.warnings)]
    /\ UNCHANGED <<searchVars, handlerVars, parserVars, engineVars, storeVars, nextId, now, pc, text, existing, claims,
                   semaphore, wg, analysis, resp>>

\* The verifier call returns and the goroutine writes the result through
\* claim := &claims[idx].
VerifyReturn(r, i, verdicts) ==
    /\ pc[r] = "verifying"
    /\ i \in 1..Len(tasks[r])
    /\ tasks[r][i].pc = "verifying"
    /\ \E c \in verdicts :
         LET v == VerifierCall(airGapped, tasks[r][i].evidences, c)
             res == TaskResult(airGapped, tasks[r][i].evidences, v)
         IN  /\ claims' = [claims EXCEPT ![r] = WriteSlot(@, i, res)]
             /\ hist' = [hist EXCEPT ![r].verdicts[i] = Verdict(v, c)]
    /\ tasks' = [tasks EXCEPT ![r][i].pc = "releasing"]
    /\ UNCHANGED <<searchVars, handlerVars, parserVars, engineVars, storeVars, nextId, now, pc, text, existing,
                   semaphore, wg, warnings, analysis, resp>>

\* The deferred calls: <-semaphore, then wg.Done().
Release(r, i) ==
    /\ pc[r] = "verifying"
    /\ i \in 1..Len(tasks[r])
    /\ tasks[r][i].pc = "releasing"
    /\ semaphore' = [semaphore EXCEPT ![r] = @ - 1]
    /\ wg' = [wg EXCEPT ![r] = @ - 1]
    /\ tasks' = [tasks EXCEPT ![r][i].pc = "done"]
    /\ hist' = [hist EXCEPT ![r].overtaken =
                  @ \/ \E j \in 1..(i - 1) : tasks[r][j].pc # "done"]
    /\ UNCHANGED <<searchVars, handlerVars, parserVars, engineVars, storeVars, nextId, now, pc, text, existing, claims,
                   warnings, analysis, resp>>

\* wg.Wait() returns: verifyClaims returns claims and warnings.
WaitGroupWait(r) ==
    /\ pc[r] = "verifying"
    /\ WaitReturns(wg[r])
    /\ pc' = [pc EXCEPT ![r] = "scoring"]
    /\ UNCHANGED <<searchVars, handlerVars, parserVars, engineVars, storeVars, nextId, now, text, existing, claims,
                   tasks, semaphore, wg, warnings, analysis, resp, hist>>

\* analysis := e.calculateAnalysis(docHash, claims, ...).
CalculateAnalysis(r) ==
    /\ pc[r] = "scoring"
    /\ analysis' = [analysis EXCEPT ![r] =
                      Some(calculateAnalysis(Sha256Hex(text[r]), claims[r], nextId, now))]
    /\ nextId' = nextId + 1
    /\ now' = now + 1
    /\ pc' = [pc EXCEPT ![r] = "persisting"]
    /\ UNCHANGED <<searchVars, handlerVars, parserVars, engineVars, storeVars, text, existing, claims, tasks,
                   semaphore, wg, warnings, resp, hist>>

\* e.store.SaveAnalysis(ctx, &analysis): one INSERT; an error is logged.
SaveAnalysis(r, storeOutcomes) ==
    /\ pc[r] = "persisting"
    /\ \E ok \in storeOutcomes :
         /\ analysisRows' = IF ok THEN Append(analysisRows, The(analysis[r]))
                                  ELSE analysisRows
         /\ hist' = [hist EXCEPT ![r].saveAnalysisCalls = @ + 1,
                                 ![r].rowsWritten = @ + (IF ok THEN 1 ELSE 0),
                                 ![r].storeFailures = @ + (IF ok THEN 0 ELSE 1)]
         /\ pc' = [pc EXCEPT ![r] = IF ~ok /\ Propagated("save_analysis")
                                    THEN "failed" ELSE "persisting_claims"]
    /\ UNCHANGED <<searchVars, handlerVars, parserVars, engineVars, claimRows, nextId, now, text, existing, claims,
                   tasks, semaphore, wg, warnings, analysis, resp>>

\* e.store.SaveClaims(ctx, analysis.ID, claims): all rows or, on an error
\* (logged), none; then VerifyText returns the response.
SaveClaims(r, storeOutcomes) ==
    /\ pc[r] = "persisting_claims"
    /\ \E ok \in storeOutcomes :
         /\ claimRows' = IF ok THEN InsertClaims(claimRows, The(analysis[r]).id, claims[r])
                              ELSE claimRows
         /\ hist' = [hist EXCEPT ![r].saveClaimsCalls = @ + 1,
                                 ![r].rowsWritten = @ + (IF ok THEN Len(claims[r]) ELSE 0),
                                 ![r].storeFailures = @ + (IF ok THEN 0 ELSE 1)]
         /\ IF ~ok /\ Propagated("save_claims")
            THEN /\ pc' = [pc EXCEPT ![r] = "failed"]
                 /\ resp' = resp
            ELSE /\ pc' = [pc EXCEPT ![r] = "done"]
                 /\ resp' = [resp EXCEPT ![r] =
                               Some(Response(The(analysis[r]), Sha256Hex(text[r]),
                                             claims[r], warnings[r]))]
    /\ UNCHANGED <<searchVars, handlerVars, parserVars, engineVars, analysisRows, nextId, now, text, existing, claims,
                   tasks, semaphore, wg, warnings, analysis>>

\* ------------------------------------- Search, one loop iteration a step
\* A Search call is named by its caller: <<r, i>> is the call the goroutine
\* of claim i of run r makes, DirectCall a call made on the aggregator
\* itself.  Its context is its caller's.
DirectCall == <<0, 0>>
Caller(id) == id[1]

\* The locals of Search when the source goroutines are started and the
\* timer is armed; sending holds the SearchResult of every source goroutine
\* that stands at its send.  The last five fields are history: the results
\* received, whether the timeout or the cancellation was selected, the
\* sources that had not returned at that moment, the evidences of those
\* sources appended afterwards, the sends completed after Search returned.
SearchStart(cs) ==
    [phase |-> "collecting", n |-> Len(cs), i |-> 0,
     pending |-> { cs[k] : k \in 1..Len(cs) },
     results |-> << >>,
     sending |-> {},
     timer |-> "armed",
     acc |-> [evidences |-> Nil, warnings |-> Nil],
     collected |-> << >>, event |-> FALSE, pendingAtEvent |-> {}, late |-> 0,
     lateSends |-> 0]

\* if len(a.clients) == 0 { return nil, []models.Warning{...} }
SearchOfNone(cs) ==
    [SearchStart(cs) EXCEPT !.phase = "returned", !.acc = AggregatedSearch(cs, << >>)]

\* The cases of the select that can proceed: a result is in the channel, the
\* timer's channel holds its value, the context is done.
SelectableWithoutDone(st, cancelled) ==
    (IF st.results # << >> THEN {"result"} ELSE {})
        \cup (IF st.timer = "fired" THEN {"timeout"} ELSE {})

Selectable(st, cancelled) ==
    (IF st.results # << >> THEN {"result"} ELSE {})
        \cup (IF st.timer = "fired" THEN {"timeout"} ELSE {})
        \cup (IF cancelled THEN {"cancelled"} ELSE {})

\* One iteration of the loop selected event e; break leaves the select, and
\* the loop ends when i reaches len(a.clients).
Iterate(st, e) ==
    [st EXCEPT !.acc = Collect(<<e>>, st.acc),
               !.i = st.i + 1,
               !.phase = IF st.i + 1 = st.n THEN "returned" ELSE "collecting"]

Looping(id) ==
    /\ id \in DOMAIN search
    /\ search[id].phase = "collecting"

\* Search is entered with the aggregator's clients.
SearchCall(id, cs) ==
    /\ id \notin DOMAIN search
    /\ search' = [c \in DOMAIN search \cup {id} |->
                    IF c = id
                    THEN IF Len(cs) = 0 THEN SearchOfNone(cs) ELSE SearchStart(cs)
                    ELSE search[c]]

\* The goroutine of source s sends its SearchResult; the channel has room
\* for every source.  (Sends after Search returned are not observed.)
SourceReturns(id, s, outcomes) ==
    /\ Looping(id)
    /\ s \in search[id].pending
    /\ \E o \in outcomes :
         search' = [search EXCEPT
                      ![id].pending = @ \ {s},
                      ![id].results = Append(@, SourceResult(s, o.error,
                                                   SourceEvidences(s, o.urls)))]

\* results := make(chan SearchResult, len(a.clients)), and when a send on
\* results proceeds: when the buffer has room.  (A channel without buffer
\* takes a send only while Search stands at its select.)
ResultsCap(st) == st.n

CanSendUnbuffered(st) == st.phase = "collecting" /\ Len(st.results) < 1

CanSend(st) == Len(st.results) < ResultsCap(st)

\* The two steps of a source goroutine, apart: c.Search returns, in any
\* phase of the Search call that started it, ...
SourceSearchReturns(id, s, outcomes) ==
    /\ id \in DOMAIN search
    /\ s \in search[id].pending
    /\ \A e \in search[id].sending : e.source # s
    /\ \E o \in outcomes :
         search' = [search EXCEPT
                      ![id].sending = @ \cup {SourceResult(s, o.error,
                                                  SourceEvidences(s, o.urls))}]

\* ... and results <- SearchResult{...} proceeds, which ends the goroutine.
SourceSends(id, s) ==
    /\ id \in DOMAIN search
    /\ CanSend(search[id])
    /\ \E e \in search[id].sending :
         /\ e.source = s
         /\ search' = [search EXCEPT
                         ![id].sending = @ \ {e},
                         ![id].pending = @ \ {s},
                         ![id].results = Append(@, e),
                         ![id].lateSends = @ + (IF search[id].phase = "returned"
                                                THEN 1 ELSE 0)]

\* 15 seconds after time.After was called.
TimerFires(id) ==
    /\ Looping(id)
    /\ search[id].timer = "armed"
    /\ search' = [search EXCEPT ![id].timer = "fired"]

\* The caller's context is cancelled.
CtxCancelled(c) ==
    /\ c \notin ctxDone
    /\ ctxDone' = ctxDone \cup {c}

\* case result := <-results
SelectResult(id) ==
    /\ Looping(id)
    /\ "result" \in Selectable(search[id], Caller(id) \in ctxDone)
    /\ LET st == search[id]
           e == Head(st.results)
           fromLate == ~e.error /\ e.source \in st.pendingAtEvent
       IN  search' = [search EXCEPT ![id] =
                        [Iterate(st, e) EXCEPT
                            !.results = Tail(st.results),
                            !.collected = Append(st.collected, e),
                            !.late = st.late + (IF fromLate THEN Len(e.evidences) ELSE 0)]]

\* case <-timeout
SelectTimeout(id) ==
    /\ Looping(id)
    /\ "timeout" \in Selectable(search[id], Caller(id) \in ctxDone)
    /\ LET st == search[id]
       IN  search' = [search EXCEPT ![id] =
                        [Iterate(st, TimeoutEvent) EXCEPT
                            !.timer = "taken",
                            !.event = TRUE,
                            !.pendingAtEvent = IF st.event THEN @ ELSE st.pending]]

\* case <-ctx.Done()
SelectDone(id) ==
    /\ Looping(id)
    /\ "cancelled" \in Selectable(search[id], Caller(id) \in ctxDone)
    /\ LET st == search[id]
       IN  search' = [search EXCEPT ![id] =
                        [Iterate(st, CancelEvent) EXCEPT
                            !.event = TRUE,
                            !.pendingAtEvent = IF st.event THEN @ ELSE st.pending]]

runVars == <<nextId, now, pc, text, existing, claims, tasks, semaphore, wg,
             warnings, analysis, resp, hist>>

\* searchResults, searchWarnings := e.searchClient.Search(ctx, claim.Text, 6):
\* the goroutine of claim i enters Search.
ClaimSearchCall(r, i) ==
    /\ pc[r] = "verifying"
    /\ i \in 1..Len(tasks[r])
    /\ tasks[r][i].pc = "searching"
    /\ SearchCall(<<r, i>>, clients)
    /\ UNCHANGED <<ctxDone, handlerVars, parserVars, engineVars, storeVars, runVars>>

\* The steps of that Search and of its sources.
ClaimSearchSelect(r, i) ==
    /\ \/ SelectResult(<<r, i>>)
       \/ SelectTimeout(<<r, i>>)
       \/ SelectDone(<<r, i>>)
    /\ UNCHANGED <<ctxDone, handlerVars, parserVars, engineVars, storeVars, runVars>>

ClaimSearchTimer(r, i) ==
    /\ TimerFires(<<r, i>>)
    /\ UNCHANGED <<ctxDone, handlerVars, parserVars, engineVars, storeVars, runVars>>

ClaimSourceReturns(r, i, outcomes) ==
    /\ \E s \in { clients[k] : k \in 1..Len(clients) } :
          SourceReturns(<<r, i>>, s, outcomes)
    /\ UNCHANGED <<ctxDone, handlerVars, parserVars, engineVars, storeVars, runVars>>

\* The context of run r is cancelled.
RunCancelled(r) ==
    /\ pc[r] \notin {"idle", "done", "failed"}
    /\ CtxCancelled(r)
    /\ UNCHANGED <<search, handlerVars, parserVars, engineVars, storeVars, runVars>>

\* That Search returns to the goroutine: as SearchReturn, with what the loop
\* collected.
ClaimSearchReturn(r, i) ==
    /\ pc[r] = "verifying"
    /\ i \in 1..Len(tasks[r])
    /\ tasks[r][i].pc = "searching"
    /\ <<r, i>> \in DOMAIN search
    /\ search[<<r, i>>].phase = "returned"
    /\ LET res == search[<<r, i>>].acc
       IN  /\ warnings' = [warnings EXCEPT ![r] = AppendWarnings(@, res.warnings)]
           /\ tasks' = [tasks EXCEPT ![r][i] = Task("verifying", res.evidences)]
           /\ hist' = [hist EXCEPT
                         ![r].verifyCalls = @ + 1,
                         ![r].calls[i] = Append(@, VerifierChoice(airGapped, res.evidences)),
                         ![r].searched = @ (+) BagOfSeq(res.warnings),
                         ![r].abandoned = @ \/ search[<<r, i>>].pending # {},
                         ![r].timedOut = IF search[<<r, i>>].timer = "taken"
                                         THEN @ \cup {i} ELSE @]
    /\ search' = [c \in DOMAIN search \ {<<r, i>>} |-> search[c]]
    /\ UNCHANGED <<ctxDone, handlerVars, parserVars, engineVars, storeVars, nextId, now, pc, text, existing,
                   claims, semaphore, wg, analysis, resp>>

\* ---------------------------------------------------- Handler.VerifyText
\* Request q arrives with a body: the handler decodes it and answers 400, or
\* goes on to call the engine; the call it makes is the next VerifyText call
\* of the engine.
HandlerDecode(q, bodies) ==
    /\ http[q].phase = "none"
    /\ \A p \in 1..(q - 1) : http[p].phase = "answered"
    /\ \E body \in bodies :
         LET code == Rejection(body)
         IN  http' = [http EXCEPT ![q] =
                        IF code # 0
                        THEN [phase |-> "answered", body |-> body, text |-> EmptyText,
                              run |-> 0, status |-> code]
                        ELSE [phase |-> "calling", body |-> body,
                              text |-> DecodeRequest(body).text,
                              run |-> 1 + Cardinality({ p \in Requests : http[p].run # 0 }),
                              status |-> 0]]
    /\ UNCHANGED <<searchVars, parserVars, engineVars, storeVars, runVars>>

\* result, err := h.engine.VerifyText(r.Context(), req.Text): the call enters.
HandlerCall(q) ==
    /\ http[q].phase = "calling"
    /\ http[q].run \in Runs
    /\ VerifyTextCall(http[q].run, http[q].text, FALSE)

\* The call has returned: 500 for an error, 201 with the response otherwise.
HandlerRespond(q) ==
    /\ http[q].phase = "calling"
    /\ http[q].run \in Runs
    /\ pc[http[q].run] \in {"done", "failed"}
    /\ http' = [http EXCEPT ![q].phase = "answered",
                            ![q].status = IF pc[http[q].run] = "failed"
                                          THEN StatusInternalServerError
                                          ELSE StatusCreated]
    /\ UNCHANGED <<searchVars, parserVars, engineVars, storeVars, runVars>>

\* ------------------------------------------------------- parseResponse
\* The extractor or the verifier parses a response of the model.
ParseResponseCall(by, responses) ==
    /\ \E t \in responses :
         parse' = [by |-> by, response |-> t,
                   result |-> IF by = "extractor" THEN ExtractorParseResponse(t)
                                                  ELSE VerifierParseResponse(t)]
    /\ UNCHANGED <<searchVars, handlerVars, engineVars, storeVars, runVars>>

\* ------------------------------------------------------ specifications
\* No call has entered.
IdleRuns ==
    /\ pc = [r \in Runs |-> "idle"]
    /\ text = [r \in Runs |-> 0]
    /\ existing = [r \in Runs |-> None]
    /\ claims = [r \in Runs |-> Nil]
    /\ tasks = [r \in Runs |-> Nil]
    /\ semaphore = [r \in Runs |-> 0]
    /\ wg = [r \in Runs |-> 0]
    /\ warnings = [r \in Runs |-> Nil]
    /\ analysis = [r \in Runs |-> None]
    /\ resp = [r \in Runs |-> None]
    /\ hist = [r \in Runs |-> NoHistory]

\* No Search call is in progress and no context is cancelled.
NoSearch ==
    /\ search = << >>
    /\ ctxDone = {}

\* No HTTP request has arrived.
NoRequests == http = [q \in Requests |-> NoRequest]

\* No response has been parsed.
NoParse == parse = [by |-> "none", response |-> << >>, result |-> ParseFailure]

\* NewEngine for one of the configurations, on an empty store.
NewEngine(configs) ==
    /\ clients \in configs
    /\ airGapped = ~HasClients(clients)
    /\ analysisRows = << >>
    /\ claimRows = << >>
    /\ nextId = 1
    /\ now = 1

\* The engine without sources and with one source; engines with two sources
\* differ in what Search returns, not in what the engine does with it.
EngineConfigs == { << >>, <<"PubMed">> }

\* An extraction answer with n claims carrying the sentence indices 0, 1, ...
InOrder(n) == [k \in 1..n |-> k - 1]
Answer(n) == ExtractionJSON(ExtractedClaims(InOrder(n)))

\* The steps of the goroutines of run r and of its wait.
VerifyClaimsStep(r, searchEnv, verdicts) ==
    \/ \E i \in DOMAIN tasks[r] : Acquire(r, i)
    \/ \E i \in DOMAIN tasks[r] : SearchReturn(r, i, searchEnv)
    \/ \E i \in DOMAIN tasks[r] : VerifyReturn(r, i, verdicts)
    \/ \E i \in DOMAIN tasks[r] : Release(r, i)
    \/ WaitGroupWait(r)

\* --- Spec: successive VerifyText calls on one engine and one store.  Every
\* store call may fail; the model answers an extraction with no claim or
\* one claim (runs over more claims are SpecRun's and SpecVerifyClaims'),
\* a source fails or returns one evidence, a verifier call fails or says
\* verified.
Completions == {ProviderError, ExtractionGarbage, Answer(0), Answer(1)}
Verdicts == {VerdictProviderError, VerdictJSON("verified", 80)}
SearchEnv ==
    [timer |-> FALSE, cancel |-> FALSE,
     sourceOutcomes |-> {SourceOutcome(TRUE, Nil), SourceOutcome(FALSE, <<1>>)}]

Init == NewEngine(EngineConfigs) /\ IdleRuns /\ NoSearch /\ NoRequests /\ NoParse

Next ==
    \E r \in Runs :
        \/ \E t \in Texts : VerifyTextCall(r, t, FALSE)
        \/ CacheLookup(r, BOOLEAN)
        \/ CacheHitReturn(r, BOOLEAN)
        \/ Extract(r, Completions)
        \/ VerifyClaimsStep(r, SearchEnv, Verdicts)
        \/ CalculateAnalysis(r)
        \/ SaveAnalysis(r, BOOLEAN)
        \/ SaveClaims(r, BOOLEAN)

Spec == Init /\ [][Next]_vars

\* --- SpecRun: one VerifyText call on an empty store, over up to MaxClaims
\* claims.  A source fails, returns nothing or returns one evidence, or the
\* aggregator's timer fires first; a verifier call fails to complete, gives
\* an unparseable answer, or a verdict with a known or an unknown status
\* word.
RunCompletions ==
    {ProviderError, ExtractionGarbage} \cup { Answer(n) : n \in 0..MaxClaims }
RunVerdicts ==
    {VerdictProviderError, VerdictGarbage}
        \cup { VerdictJSON(w, 80) : w \in {"verified", "mixed", "unsupported", "Verified"} }
RunSearchEnv ==
    [timer |-> TRUE, cancel |-> FALSE,
     sourceOutcomes |-> {SourceOutcome(TRUE, Nil), SourceOutcome(FALSE, Nil),
                         SourceOutcome(FALSE, <<1>>)}]

NextRun ==
    \/ VerifyTextCall(1, 1, FALSE)
    \/ CacheLookup(1, BOOLEAN)
    \/ Extract(1, RunCompletions)
    \/ VerifyClaimsStep(1, RunSearchEnv, RunVerdicts)
    \/ CalculateAnalysis(1)
    \/ SaveAnalysis(1, BOOLEAN)
    \/ SaveClaims(1, BOOLEAN)

SpecRun == Init /\ [][NextRun]_vars

\* --- SpecVerifyClaims: Engine.verifyClaims on up to MaxClaimsVC claims, from
\* the state Extract leaves.  A source returns one evidence and a verifier
\* call says verified (the failing calls are SpecRun's).
VCVerdicts == {VerdictJSON("verified", 80)}
VCSearchEnv ==
    [timer |-> FALSE, cancel |-> FALSE,
     sourceOutcomes |-> {SourceOutcome(FALSE, <<1>>)}]

InitVerifyClaims ==
    /\ NewEngine(EngineConfigs)
    /\ NoSearch /\ NoRequests /\ NoParse
    /\ \E n \in 0..MaxClaimsVC :
         LET cl == NewClaims(ExtractedClaims(InOrder(n)), 1)
         IN  /\ pc = [r \in Runs |-> IF r = 1 THEN "verifying" ELSE "idle"]
             /\ text = [r \in Runs |-> IF r = 1 THEN 1 ELSE 0]
             /\ claims = [r \in Runs |-> IF r = 1 THEN cl ELSE Nil]
             /\ tasks = [r \in Runs |->
                           IF r = 1 THEN [k \in 1..n |-> Task("queued", Nil)] ELSE Nil]
             /\ wg = [r \in Runs |-> IF r = 1 THEN n ELSE 0]
             /\ hist = [r \in Runs |->
                          IF r = 1
                          THEN [NoHistory EXCEPT !.extractCalls = 1,
                                                 !.extracted = cl,
                                                 !.verdicts = [k \in 1..n |-> NoVerdict],
                                                 !.calls = [k \in 1..n |-> << >>]]
                          ELSE NoHistory]
    /\ existing = [r \in Runs |-> None]
    /\ semaphore = [r \in Runs |-> 0]
    /\ warnings = [r \in Runs |-> Nil]
    /\ analysis = [r \in Runs |-> None]
    /\ resp = [r \in Runs |-> None]

NextVerifyClaims == VerifyClaimsStep(1, VCSearchEnv, VCVerdicts)

SpecVerifyClaims == InitVerifyClaims /\ [][NextVerifyClaims]_vars

\* --- SpecCalc: calculateAnalysis applied to every list of at most MaxLen
\* claims with final statuses, as an air-gapped run over that many claims
\* leaves them when wg.Wait() has returned.
FinalStatuses == {StatusVerified, StatusMixed, StatusUnsupported}
StatusLists == UNION { [1..n -> FinalStatuses] : n \in 0..MaxLen }

VerifiedClaims(sts) ==
    LET cl == NewClaims(ExtractedClaims(InOrder(Len(sts))), 1)
    IN  [k \in 1..Len(sts) |->
            Finalise(cl[k],
                     TaskResult(TRUE, Nil, VerifyWithoutEvidence(VerdictJSON(sts[k], 80))))]

InitCalc ==
    /\ NewEngine({ << >> })
    /\ NoSearch /\ NoRequests /\ NoParse
    /\ \E sts \in StatusLists :
         LET n == Len(sts)
         IN  /\ claims = [r \in Runs |-> IF r = 1 THEN VerifiedClaims(sts) ELSE Nil]
             /\ tasks = [r \in Runs |->
                           IF r = 1 THEN [k \in 1..n |-> Task("done", Nil)] ELSE Nil]
             /\ hist = [r \in Runs |->
                          IF r = 1
                          THEN [NoHistory EXCEPT
                                  !.extractCalls = 1,
                                  !.verifyCalls = n,
                                  !.extracted = NewClaims(ExtractedClaims(InOrder(n)), 1),
                                  !.verdicts = [k \in 1..n |->
                                      Verdict(VerifyWithoutEvidence(VerdictJSON(sts[k], 80)),
                                              VerdictJSON(sts[k], 80))],
                                  !.calls = [k \in 1..n |-> <<VerifierChoice(TRUE, Nil)>>]]
                          ELSE NoHistory]
    /\ pc = [r \in Runs |-> IF r = 1 THEN "scoring" ELSE "idle"]
    /\ text = [r \in Runs |-> IF r = 1 THEN 1 ELSE 0]
    /\ existing = [r \in Runs |-> None]
    /\ semaphore = [r \in Runs |-> 0]
    /\ wg = [r \in Runs |-> 0]
    /\ warnings = [r \in Runs |-> Nil]
    /\ analysis = [r \in Runs |-> None]
    /\ resp = [r \in Runs |-> None]

NextCalc == CalculateAnalysis(1)

SpecCalc == InitCalc /\ [][NextCalc]_vars

\* --- SpecSearch: one Search call on the aggregator of an engine built for
\* any of NewEngine's configurations.  A source returns an error, nothing,
\* or evidences with distinct urls out of NumURLs; it may also never return.
\* The timer may fire and the context may be cancelled at any moment.
NumURLs == 2
ClientConfigs ==
    { << >>, <<"DuckDuckGo">>, <<"PubMed">>, <<"DuckDuckGo", "PubMed">> }
SourceOutcomes ==
    {SourceOutcome(TRUE, Nil), SourceOutcome(FALSE, Nil), SourceOutcome(FALSE, <<1, 2>>)}
        \cup { SourceOutcome(FALSE, <<u>>) : u \in 1..NumURLs }

InitSearch == NewEngine(ClientConfigs) /\ IdleRuns /\ NoSearch /\ NoRequests /\ NoParse

NextSearch ==
    \/ SearchCall(DirectCall, clients) /\ UNCHANGED <<ctxDone, handlerVars, parserVars, engineVars, storeVars, runVars>>
    \/ \E s \in {"DuckDuckGo", "PubMed"} :
          SourceReturns(DirectCall, s, SourceOutcomes)
              /\ UNCHANGED <<ctxDone, handlerVars, parserVars, engineVars, storeVars, runVars>>
    \/ TimerFires(DirectCall) /\ UNCHANGED <<ctxDone, handlerVars, parserVars, engineVars, storeVars, runVars>>
    \/ CtxCancelled(Caller(DirectCall)) /\ UNCHANGED <<search, handlerVars, parserVars, engineVars, storeVars, runVars>>
    \/ SelectResult(DirectCall) /\ UNCHANGED <<ctxDone, handlerVars, parserVars, engineVars, storeVars, runVars>>
    \/ SelectTimeout(DirectCall) /\ UNCHANGED <<ctxDone, handlerVars, parserVars, engineVars, storeVars, runVars>>
    \/ SelectDone(DirectCall) /\ UNCHANGED <<ctxDone, handlerVars, parserVars, engineVars, storeVars, runVars>>

SpecSearch == InitSearch /\ [][NextSearch]_vars

\* --- SpecAirGapped: successive VerifyText calls on an engine built without
\* any source, and a Search call made on its aggregator.  An extraction
\* gives two claims (failing extractions are Spec's), a verifier call fails
\* or says verified, the store's reads may fail (its failing writes are
\* Spec's).
AirGappedCompletions == {Answer(2)}

InitAirGapped == NewEngine({ << >> }) /\ IdleRuns /\ NoSearch /\ NoRequests /\ NoParse

NextAirGapped ==
    \/ SearchCall(DirectCall, clients) /\ UNCHANGED <<ctxDone, handlerVars, parserVars, engineVars, storeVars, runVars>>
    \/ \E r \in Runs :
        \/ \E t \in Texts : VerifyTextCall(r, t, FALSE)
        \/ CacheLookup(r, BOOLEAN)
        \/ CacheHitReturn(r, BOOLEAN)
        \/ Extract(r, AirGappedCompletions)
        \/ \E i \in DOMAIN tasks[r] : Acquire(r, i)
        \/ \E i \in DOMAIN tasks[r] : VerifyReturn(r, i, Verdicts)
        \/ \E i \in DOMAIN tasks[r] : Release(r, i)
        \/ WaitGroupWait(r)
        \/ CalculateAnalysis(r)
        \/ SaveAnalysis(r, {TRUE})
        \/ SaveClaims(r, {TRUE})

SpecAirGapped == InitAirGapped /\ [][NextAirGapped]_vars

\* --- SpecCancel: one VerifyText call, over two claims on an engine with one
\* source or over one claim on an engine with two sources, each Search taken
\* one loop iteration at a time.  A source returns an error or one evidence,
\* or never returns; the context may be cancelled at any moment of the call.
\* A verifier call returns, with an error once the context is cancelled; a
\* store call returns.  Every goroutine that can take a step eventually
\* does, and every armed timer eventually fires; nothing makes a source
\* return or the context be cancelled.
CancelConfigs == { <<"PubMed">>, <<"DuckDuckGo", "PubMed">> }
CancelCompletions == IF Len(clients) = 1 THEN {Answer(2)} ELSE {Answer(1)}
CancelOutcomes == {SourceOutcome(TRUE, Nil), SourceOutcome(FALSE, <<1>>)}
CancelVerdicts(r) ==
    IF r \in ctxDone THEN {VerdictProviderError} ELSE {VerdictJSON("verified", 80)}

InitCancel == NewEngine(CancelConfigs) /\ IdleRuns /\ NoSearch /\ NoRequests /\ NoParse

\* The steps of the goroutine of claim i, and those of VerifyText itself.
ClaimStep(r, i) ==
    \/ Acquire(r, i)
    \/ ClaimSearchCall(r, i)
    \/ ClaimSearchSelect(r, i)
    \/ ClaimSearchReturn(r, i)
    \/ VerifyReturn(r, i, CancelVerdicts(r))
    \/ Release(r, i)

MainStep(r) ==
    \/ CacheLookup(r, {TRUE})
    \/ Extract(r, CancelCompletions)
    \/ WaitGroupWait(r)
    \/ CalculateAnalysis(r)
    \/ SaveAnalysis(r, BOOLEAN)
    \/ SaveClaims(r, BOOLEAN)

NextCancel ==
    \/ VerifyTextCall(1, 1, FALSE)
    \/ MainStep(1)
    \/ \E i \in 1..2 : ClaimStep(1, i)
    \/ \E i \in 1..2 : ClaimSearchTimer(1, i)
    \/ \E i \in 1..2 : ClaimSourceReturns(1, i, CancelOutcomes)
    \/ RunCancelled(1)

FairCancel ==
    /\ WF_vars(MainStep(1))
    /\ \A i \in 1..2 : WF_vars(ClaimStep(1, i))
    /\ \A i \in 1..2 : WF_vars(ClaimSearchTimer(1, i))

SpecCancel == InitCancel /\ [][NextCancel]_vars /\ FairCancel

\* --- SpecExample: one VerifyText call over three claims on an engine with
\* both sources, each Search taken one loop iteration at a time.  A source
\* returns two evidences or never returns, the timer of a Search may fire,
\* a verifier call fails or says verified, the store calls succeed.
ExampleCompletions == {Answer(3)}
ExampleOutcomes == {SourceOutcome(FALSE, <<1, 2>>)}

InitExample == NewEngine({ <<"DuckDuckGo", "PubMed">> }) /\ IdleRuns /\ NoSearch /\ NoRequests /\ NoParse

NextExample ==
    \/ VerifyTextCall(1, 1, FALSE)
    \/ CacheLookup(1, {TRUE})
    \/ Extract(1, ExampleCompletions)
    \/ \E i \in DOMAIN tasks[1] : Acquire(1, i)
    \/ \E i \in DOMAIN tasks[1] : ClaimSearchCall(1, i)
    \/ \E i \in DOMAIN tasks[1] : ClaimSourceReturns(1, i, ExampleOutcomes)
    \/ \E i \in DOMAIN tasks[1] : ClaimSearchTimer(1, i)
    \/ \E i \in DOMAIN tasks[1] : ClaimSearchSelect(1, i)
    \/ \E i \in DOMAIN tasks[1] : ClaimSearchReturn(1, i)
    \/ \E i \in DOMAIN tasks[1] : VerifyReturn(1, i, Verdicts)
    \/ \E i \in DOMAIN tasks[1] : Release(1, i)
    \/ WaitGroupWait(1)
    \/ CalculateAnalysis(1)
    \/ SaveAnalysis(1, {TRUE})
    \/ SaveClaims(1, {TRUE})

SpecExample == InitExample /\ [][NextExample]_vars


\* --- SpecHandler: successive HTTP requests to Handler.VerifyText on one
\* engine.  A body is not JSON, has no text, an empty text or one of the
\* texts; an extraction fails or gives one claim, a verifier call fails or
\* says verified, the store calls succeed (their failures are Spec's).
HandlerBodies ==
    {MalformedBody, BodyWithoutText, BodyWithText(EmptyText)}
        \cup { BodyWithText(t) :
                 t \in { t \in Texts : \A u \in 1..(t - 1) :
                                          \E p \in Requests : http[p].text = u } }
HandlerCompletions == {ProviderError, Answer(1)}

InitHandler == NewEngine(EngineConfigs) /\ IdleRuns /\ NoSearch /\ NoRequests /\ NoParse

NextHandler ==
    \/ \E q \in Requests :
        \/ HandlerDecode(q, HandlerBodies)
        \/ HandlerCall(q)
        \/ HandlerRespond(q)
    \/ \E r \in Runs :
        \/ CacheLookup(r, {TRUE})
        \/ CacheHitReturn(r, {TRUE})
        \/ Extract(r, HandlerCompletions)
        \/ VerifyClaimsStep(r, SearchEnv, Verdicts)
        \/ CalculateAnalysis(r)
        \/ SaveAnalysis(r, {TRUE})
        \/ SaveClaims(r, {TRUE})

SpecHandler == InitHandler /\ [][NextHandler]_vars

\* --- SpecVerdict: one VerifyText call over two claims, for every verdict
\* the model may give: a status word that is one of the three, empty, in
\* another case or unknown, with a confidence_score below 0, within [0, 1]
\* or above 1; a verifier call may also fail or give an unparseable answer.
\* A source returns nothing or one evidence; the store calls succeed.  The
\* reasoning of a verdict names its status word, so that the word a claim
\* was judged with can be read from the claim.
VerdictWords == {"verified", "mixed", "unsupported", "", "Verified", "maybe"}
VerdictScores == {-20, 80, 150}
AnyVerdicts ==
    {VerdictProviderError, VerdictGarbage}
        \cup { [VerdictJSON(w, c) EXCEPT !.reasoning = <<"status word", w>>] :
                 w \in VerdictWords, c \in VerdictScores }
VerdictSearchEnv ==
    [timer |-> FALSE, cancel |-> FALSE,
     sourceOutcomes |-> {SourceOutcome(FALSE, Nil), SourceOutcome(FALSE, <<1>>)}]

NextVerdict ==
    \/ VerifyTextCall(1, 1, FALSE)
    \/ CacheLookup(1, {TRUE})
    \/ Extract(1, {Answer(2)})
    \/ VerifyClaimsStep(1, VerdictSearchEnv, AnyVerdicts)
    \/ CalculateAnalysis(1)
    \/ SaveAnalysis(1, {TRUE})
    \/ SaveClaims(1, {TRUE})

SpecVerdict == Init /\ [][NextVerdict]_vars

\* --- SpecConcurrent: Engine.verifyClaims of two concurrent VerifyText calls
\* on an air-gapped engine, from the states their Extract calls leave: the
\* first over one claim more than the semaphore admits, the second over as
\* many as it admits.  The verifier calls of the first return (verified);
\* those of the second are still outstanding.
InitConcurrent ==
    /\ NewEngine({ << >> })
    /\ NoSearch /\ NoRequests /\ NoParse
    /\ LET n == [r \in Runs |-> CASE r = 1 -> SemaphoreCap + 1
                                  [] r = 2 -> SemaphoreCap
                                  [] OTHER -> 0]
           cl == [r \in Runs |->
                    NewClaims(ExtractedClaims(InOrder(n[r])),
                              IF r = 1 THEN 1 ELSE SemaphoreCap + 2)]
       IN  /\ pc = [r \in Runs |-> IF r \in {1, 2} THEN "verifying" ELSE "idle"]
           /\ text = [r \in Runs |-> IF r \in {1, 2} THEN r ELSE 0]
           /\ claims = cl
           /\ tasks = [r \in Runs |-> [k \in 1..n[r] |-> Task("queued", Nil)]]
           /\ wg = n
           /\ hist = [r \in Runs |->
                        IF r \in {1, 2}
                        THEN [NoHistory EXCEPT !.extractCalls = 1,
                                               !.lookupOK = TRUE,
                                               !.extracted = cl[r],
                                               !.verdicts = [k \in 1..n[r] |-> NoVerdict],
                                               !.calls = [k \in 1..n[r] |-> << >>]]
                        ELSE NoHistory]
    /\ existing = [r \in Runs |-> None]
    /\ semaphore = [r \in Runs |-> 0]
    /\ warnings = [r \in Runs |-> Nil]
    /\ analysis = [r \in Runs |-> None]
    /\ resp = [r \in Runs |-> None]

NextConcurrent ==
    \/ \E i \in DOMAIN tasks[1] : Acquire(1, i)
    \/ \E i \in DOMAIN tasks[1] : VerifyReturn(1, i, VCVerdicts)
    \/ \E i \in DOMAIN tasks[1] : Release(1, i)
    \/ WaitGroupWait(1)
    \/ \E i \in DOMAIN tasks[2] : Acquire(2, i)

SpecConcurrent == InitConcurrent /\ [][NextConcurrent]_vars

\* --- SpecRace: concurrent VerifyText calls on one air-gapped engine and one
\* store, in every interleaving of their steps.  An extraction fails or
\* gives one claim, a verifier call says verified, the store calls succeed.
RaceCompletions == {ProviderError, Answer(1)}

InitRace == NewEngine({ << >> }) /\ IdleRuns /\ NoSearch /\ NoRequests /\ NoParse

NextRace ==
    \E r \in Runs :
        \/ \E t \in Texts : VerifyTextCall(r, t, TRUE)
        \/ CacheLookup(r, {TRUE})
        \/ CacheHitReturn(r, {TRUE})
        \/ Extract(r, RaceCompletions)
        \/ \E i \in DOMAIN tasks[r] : Acquire(r, i)
        \/ \E i \in DOMAIN tasks[r] : VerifyReturn(r, i, VCVerdicts)
        \/ \E i \in DOMAIN tasks[r] : Release(r, i)
        \/ WaitGroupWait(r)
        \/ CalculateAnalysis(r)
        \/ SaveAnalysis(r, {TRUE})
        \/ SaveClaims(r, {TRUE})

SpecRace == InitRace /\ [][NextRace]_vars

\* --- SpecParse: one of the two parseResponse functions is applied once to
\* a response of at most MaxText tokens.
Responses == UNION { [1..n -> Tokens] : n \in 0..MaxText }

InitParse == NewEngine({ << >> }) /\ IdleRuns /\ NoSearch /\ NoRequests /\ NoParse

NextParse ==
    \/ parse.by = "none" /\ ParseResponseCall("extractor", Responses)
    \/ parse.by = "none" /\ ParseResponseCall("verifier", Responses)

SpecParse == InitParse /\ [][NextParse]_vars

\* --- SpecTerminates: Engine.verifyClaims on up to MaxClaimsVC claims.  The
\* search of every third claim finds no evidence, the others find one; the
\* verifier call of every second claim fails, the others answer: the four
\* branches of the goroutine are all taken, in every interleaving.  Every
\* goroutine that can take a step is scheduled, every search and every
\* verifier call returns, and wg.Wait() returns once the counter is zero.
TerminatesVerdicts(i) ==
    IF i % 2 = 1 THEN {VerdictProviderError} ELSE {VerdictJSON("verified", 80)}
TerminatesSearchEnv(i) ==
    [timer |-> FALSE, cancel |-> FALSE,
     sourceOutcomes |-> {SourceOutcome(FALSE, IF i % 3 = 0 THEN << >> ELSE <<1>>)}]

GoroutineStep(r, i) ==
    \/ Acquire(r, i)
    \/ SearchReturn(r, i, TerminatesSearchEnv(i))
    \/ VerifyReturn(r, i, TerminatesVerdicts(i))
    \/ Release(r, i)

NextTerminates ==
    \/ \E i \in 1..MaxClaimsVC : GoroutineStep(1, i)
    \/ WaitGroupWait(1)

FairTerminates ==
    /\ \A i \in 1..MaxClaimsVC : WF_vars(GoroutineStep(1, i))
    /\ WF_vars(WaitGroupWait(1))

SpecTerminates == InitVerifyClaims /\ [][NextTerminates]_vars /\ FairTerminates

\* --- SpecRoundTrip: successive VerifyText calls on one text, one engine and
\* a store whose calls succeed.  The model answers the extraction with up to
\* MaxClaims claims whose sentence_index values are any numbers below
\* MaxClaims, in any order and with repetitions; a source returns one
\* evidence and the verifier says verified.
SentenceIndices == UNION { [1..n -> 0..(MaxClaims - 1)] : n \in 0..MaxClaims }
RoundTripCompletions == { ExtractionJSON(ExtractedClaims(idx)) : idx \in SentenceIndices }

NextRoundTrip ==
    \E r \in Runs :
        \/ VerifyTextCall(r, 1, FALSE)
        \/ CacheLookup(r, {TRUE})
        \/ CacheHitReturn(r, {TRUE})
        \/ Extract(r, RoundTripCompletions)
        \/ VerifyClaimsStep(r, VCSearchEnv, VCVerdicts)
        \/ CalculateAnalysis(r)
        \/ SaveAnalysis(r, {TRUE})
        \/ SaveClaims(r, {TRUE})

SpecRoundTrip == Init /\ [][NextRoundTrip]_vars

\* --- SpecChannel: one Search call on the aggregator, with the two steps of
\* every source goroutine apart.  A source's Search fails or returns one
\* evidence, at any moment, also after the aggregator's Search returned, or
\* never.  A send that can proceed does proceed; nothing else is assumed to
\* happen.
ChannelOutcomes == {SourceOutcome(TRUE, Nil), SourceOutcome(FALSE, <<1>>)}
SourceNames == {"DuckDuckGo", "PubMed"}

SendStep(s) ==
    SourceSends(DirectCall, s)
        /\ UNCHANGED <<ctxDone, handlerVars, parserVars, engineVars, storeVars, runVars>>

NextChannel ==
    \/ SearchCall(DirectCall, clients) /\ UNCHANGED <<ctxDone, handlerVars, parserVars, engineVars, storeVars, runVars>>
    \/ \E s \in SourceNames :
          SourceSearchReturns(DirectCall, s, ChannelOutcomes)
              /\ UNCHANGED <<ctxDone, handlerVars, parserVars, engineVars, storeVars, runVars>>
    \/ \E s \in SourceNames : SendStep(s)
    \/ TimerFires(DirectCall) /\ UNCHANGED <<ctxDone, handlerVars, parserVars, engineVars, storeVars, runVars>>
    \/ CtxCancelled(Caller(DirectCall)) /\ UNCHANGED <<search, handlerVars, parserVars, engineVars, storeVars, runVars>>
    \/ SelectResult(DirectCall) /\ UNCHANGED <<ctxDone, handlerVars, parserVars, engineVars, storeVars, runVars>>
    \/ SelectTimeout(DirectCall) /\ UNCHANGED <<ctxDone, handlerVars, parserVars, engineVars, storeVars, runVars>>
    \/ SelectDone(DirectCall) /\ UNCHANGED <<ctxDone, handlerVars, parserVars, engineVars, storeVars, runVars>>

FairChannel == \A s \in SourceNames : WF_vars(SendStep(s))

SpecChannel == InitSearch /\ [][NextChannel]_vars /\ FairChannel

\* ------------------------------------------------------------- claims
Returned(r) == The(resp[r])
FullRun(r) == existing[r] = None
PastWait(r) == pc[r] \in {"scoring", "persisting", "persisting_claims", "done"}
NumWithStatus(cl, st) == Cardinality({ i \in DOMAIN cl : cl[i].status = st })
AllWithStatus(cl, st) == \A i \in DOMAIN cl : cl[i].status = st
SomeVerdict(r, failed) ==
    \E i \in DOMAIN hist[r].verdicts :
        hist[r].verdicts[i].returned /\ hist[r].verdicts[i].err = failed

\* C1 (SpecVerifyClaims): in every interleaving of the per-claim goroutines
\* of verifyClaims, the claims past the semaphore acquire and before its
\* release never number more than 5.
C1_AtMostFiveInFlight ==
    \A r \in Runs : Cardinality(InFlight(r)) <= 5

\* Five claims hold the semaphore and a sixth waits for it.
C1_Witness ==
    /\ Cardinality(InFlight(1)) = 5
    /\ \E i \in DOMAIN tasks[1] : tasks[1][i].pc = "queued"

\* C2 (SpecRun): the AnalysisResult of a full run over a non-empty claim set
\* has verifiedClaims + mixedClaims + unsupportedClaims = totalClaims and
\* 0 <= overallScore <= 10, whatever the verifier and the searches did.
C2_CountsAddUpScoreInRange ==
    \A r \in Runs :
        analysis[r] # None /\ Len(claims[r]) > 0 =>
            LET a == The(analysis[r])
            IN  /\ a.verifiedClaims + a.mixedClaims + a.unsupportedClaims = a.totalClaims
                /\ a.totalClaims = Len(claims[r])
                /\ FLeq(FromInt(0), a.overallScore)
                /\ FLeq(a.overallScore, FromInt(10))

\* A finished run over two or more claims with a verifier error, a verifier
\* success and a search warning.
C2_Witness ==
    \E r \in Runs :
        /\ pc[r] = "done" /\ analysis[r] # None /\ Len(claims[r]) >= 2
        /\ SomeVerdict(r, TRUE) /\ SomeVerdict(r, FALSE)
        /\ warnings[r] # Nil

\* C3 as stated (SpecCalc): for a claim list of any length, overallScore = 10
\* iff every claim is verified, and overallScore = 0 iff every claim is
\* unsupported.
C3_ScoreExtremesAnyLength ==
    \A r \in Runs :
        analysis[r] # None =>
            /\ The(analysis[r]).overallScore = FromInt(10)
                    <=> AllWithStatus(claims[r], StatusVerified)
            /\ The(analysis[r]).overallScore = FromInt(0)
                    <=> AllWithStatus(claims[r], StatusUnsupported)

\* C3 amended (SpecCalc): for a non-empty claim list with final statuses,
\* overallScore = 10 iff every claim is verified and overallScore = 0 iff
\* every claim is unsupported; for the empty list overallScore is 0.
C3_ScoreExtremesNonEmpty ==
    \A r \in Runs :
        analysis[r] # None =>
            IF Len(claims[r]) > 0
            THEN /\ The(analysis[r]).overallScore = FromInt(10)
                        <=> AllWithStatus(claims[r], StatusVerified)
                 /\ The(analysis[r]).overallScore = FromInt(0)
                        <=> AllWithStatus(claims[r], StatusUnsupported)
            ELSE The(analysis[r]).overallScore = FromInt(0)

\* A scored list of several claims, all verified, with score 10.
C3_Witness ==
    /\ analysis[1] # None /\ Len(claims[1]) >= 2
    /\ AllWithStatus(claims[1], StatusVerified)
    /\ The(analysis[1]).overallScore = FromInt(10)

\* C4 (SpecCalc): calculateAnalysis returns overallScore =
\* 10 * (verified + 0.5 * mixed) / totalClaims for totalClaims > 0 and 0 for
\* totalClaims = 0, the counts being the numbers of claims with final status
\* verified, mixed, unsupported and totalClaims the length of the list.
C4_ScoreFormula ==
    \A r \in Runs :
        analysis[r] # None =>
            LET a == The(analysis[r])
                n == Len(claims[r])
                v == NumWithStatus(claims[r], StatusVerified)
                m == NumWithStatus(claims[r], StatusMixed)
                u == NumWithStatus(claims[r], StatusUnsupported)
            IN  /\ a.totalClaims = n
                /\ a.verifiedClaims = v /\ a.mixedClaims = m /\ a.unsupportedClaims = u
                /\ a.overallScore = IF n > 0 THEN Rat(10 * (2 * v + m), 2 * n)
                                             ELSE FromInt(0)

\* A scored list holding a verified, a mixed and an unsupported claim.
C4_Witness ==
    /\ analysis[1] # None
    /\ NumWithStatus(claims[1], StatusVerified) >= 1
    /\ NumWithStatus(claims[1], StatusMixed) >= 1
    /\ NumWithStatus(claims[1], StatusUnsupported) >= 1

\* C5 as stated (Spec): once a call on text T has returned id X, every later
\* call on T returns id X and makes no extraction and no verification call.
C5_LaterCallReturnsSameId ==
    \A r \in Runs : \A x \in hist[r].prior :
        /\ hist[r].extractCalls = 0
        /\ hist[r].verifyCalls = 0
        /\ pc[r] # "failed"
        /\ pc[r] = "done" => Returned(r).id = x

\* C5 amended (Spec): once a call on text T has returned id X, a later call
\* on T whose GetAnalysisByHash succeeds while X is stored for T with a
\* created_at later than that of every other analysis stored for T returns id X and makes no extraction, search or
\* verification call.
C5_LaterCallReturnsNewestStored ==
    \A r \in Runs : \A x \in hist[r].prior :
        ( /\ hist[r].lookupOK
          /\ \E row \in hist[r].stored :
                /\ row.id = x
                /\ \A o \in hist[r].stored \ {row} : o.createdAt < row.createdAt )
        => /\ hist[r].extractCalls = 0
           /\ hist[r].searchCalls = 0
           /\ hist[r].verifyCalls = 0
           /\ pc[r] # "failed"
           /\ pc[r] = "done" => Returned(r).id = x

\* A later call on the same text answered from the store with the earlier id.
C5_Witness ==
    \E r \in Runs :
        /\ pc[r] = "done" /\ ~FullRun(r)
        /\ hist[r].prior # {}
        /\ Returned(r).id \in hist[r].prior

\* C6 (Spec): when the extraction call fails or its answer does not parse,
\* VerifyText returns an error and no response, starts no goroutine, makes no
\* search or verifier call, calls neither SaveAnalysis nor SaveClaims and
\* writes no row.
C6_ExtractionFailureAborts ==
    \A r \in Runs :
        hist[r].extractBad =>
            /\ pc[r] = "failed"
            /\ resp[r] = None
            /\ tasks[r] = Nil /\ claims[r] = Nil /\ analysis[r] = None
            /\ hist[r].searchCalls = 0 /\ hist[r].verifyCalls = 0
            /\ hist[r].saveAnalysisCalls = 0 /\ hist[r].saveClaimsCalls = 0
            /\ hist[r].rowsWritten = 0

\* A call whose extraction failed, on a store holding an earlier run's rows.
C6_Witness ==
    \E r \in Runs :
        /\ pc[r] = "failed" /\ hist[r].extractBad
        /\ Len(analysisRows) = 1 /\ Len(claimRows) = 1

\* C7 (SpecRun): a verifier error for one claim does not fail the run; in the
\* response that claim is unsupported with confidence 0 and a generic
\* verification-error reasoning, and every other claim has the status its
\* own verifier call returned.
VerificationErrorReasonings ==
    { <<"Verification error">>, <<"Verification error - no evidence found">> }

C7_VerifierErrorIsolated ==
    \A r \in Runs :
        /\ SomeVerdict(r, TRUE) => pc[r] # "failed"
        /\ pc[r] = "done" /\ FullRun(r) =>
              /\ resp[r] # None
              /\ DOMAIN Returned(r).claims = DOMAIN hist[r].verdicts
              /\ \A i \in DOMAIN hist[r].verdicts :
                    LET c == Returned(r).claims[i]
                        v == hist[r].verdicts[i]
                    IN  /\ v.returned
                        /\ v.err => /\ c.status = StatusUnsupported
                                    /\ c.confidence = 0
                                    /\ c.reasoning \in VerificationErrorReasonings
                        /\ ~v.err => c.status = v.status

\* A returned run where one claim's verifier call failed and another's said
\* verified.
C7_Witness ==
    \E r \in Runs :
        /\ pc[r] = "done" /\ FullRun(r)
        /\ \E i, j \in DOMAIN hist[r].verdicts :
              /\ hist[r].verdicts[i].err
              /\ ~hist[r].verdicts[j].err
              /\ Returned(r).claims[j].status = StatusVerified

\* C8 (SpecRun): scoring starts only when every goroutine of the run has
\* finished: from then on no claim of the run, and none in the response, is
\* pending.
C8_ScoringAfterAllTasks ==
    \A r \in Runs :
        PastWait(r) /\ FullRun(r) =>
            /\ \A i \in DOMAIN tasks[r] : tasks[r][i].pc = "done"
            /\ wg[r] = 0 /\ semaphore[r] = 0
            /\ \A i \in DOMAIN claims[r] : claims[r][i].status \in FinalStatuses
            /\ resp[r] # None =>
                  \A i \in DOMAIN Returned(r).claims :
                      Returned(r).claims[i].status \in FinalStatuses

\* Scoring is about to run over claims that finished out of order.
C8_Witness ==
    /\ pc[1] = "scoring" /\ Len(claims[1]) >= 2
    /\ hist[1].overtaken

C10_OrderIsExtractionOrder ==
    \A r \in Runs :
        PastWait(r) /\ FullRun(r) =>
            /\ DOMAIN claims[r] = DOMAIN hist[r].extracted
            /\ \A i \in DOMAIN claims[r] :
                  /\ claims[r][i].id = hist[r].extracted[i].id
                  /\ claims[r][i].text = hist[r].extracted[i].text
            /\ resp[r] # None =>
                  /\ DOMAIN Returned(r).claims = DOMAIN hist[r].extracted
                  /\ \A i \in DOMAIN hist[r].extracted :
                        /\ Returned(r).claims[i].id = hist[r].extracted[i].id
                        /\ Returned(r).claims[i].text = hist[r].extracted[i].text

\* A returned run whose claims finished in another order than extracted.
C10_Witness ==
    \E r \in Runs :
        /\ pc[r] = "done" /\ FullRun(r)
        /\ Len(Returned(r).claims) >= 2
        /\ hist[r].overtaken

\* Helpers of the claims about Search.
SeqRange(q) == { q[k] : k \in DOMAIN q }
NumFrom(ws, src) == Cardinality({ k \in DOMAIN ws : ws[k].source = src })
FailedSources(st) ==
    { e.source : e \in { x \in SeqRange(st.results) \cup SeqRange(st.collected) : x.error } }
CollectedFailed(st) == { e.source : e \in { x \in SeqRange(st.collected) : x.error } }
RECURSIVE EvidencesOf(_)
EvidencesOf(rs) ==
    IF rs = << >> THEN Nil
    ELSE (IF Head(rs).error THEN Nil ELSE Head(rs).evidences) \o EvidencesOf(Tail(rs))
ReturnedSearches == { id \in DOMAIN search : search[id].phase = "returned" }

\* C16 as stated (SpecSearch): when Search returns, every source whose search
\* failed has exactly one warning carrying its name, and the evidences of
\* every source that succeeded and was collected are in the merged list.
C16_FailedSourceAlwaysWarns ==
    \A id \in ReturnedSearches :
        LET st == search[id]
        IN  /\ \A s \in FailedSources(st) : NumFrom(st.acc.warnings, s) = 1
            /\ st.acc.evidences = EvidencesOf(st.collected)

\* C16 amended (SpecSearch): when Search returns, every source whose failed
\* result was collected has exactly one warning carrying its name, no other
\* source has one, and the merged list is the evidences of the sources that
\* succeeded and were collected, in collection order.
C16_CollectedFailureWarns ==
    \A id \in ReturnedSearches :
        LET st == search[id]
        IN  /\ \A s \in CollectedFailed(st) : NumFrom(st.acc.warnings, s) = 1
            /\ \A s \in {"DuckDuckGo", "PubMed"} \ CollectedFailed(st) :
                  NumFrom(st.acc.warnings, s) = 0
            /\ st.acc.evidences = EvidencesOf(st.collected)

\* Search returned after collecting one source's evidence and then another
\* source's error.
C16_Witness ==
    \E id \in ReturnedSearches :
        LET st == search[id]
        IN  /\ Len(st.collected) = 2
            /\ ~st.collected[1].error /\ st.collected[1].evidences # Nil
            /\ st.collected[2].error
            /\ st.acc.evidences = st.collected[1].evidences

\* C17 (SpecSearch): once the 15 s timeout has been taken, Search is not left
\* waiting for a source that has not returned: with the timer taken, no
\* result in the channel and the context not cancelled, Search has returned.
C17_ReturnsOnTimeout ==
    \A id \in DOMAIN search :
        ( /\ search[id].timer = "taken"
          /\ search[id].pending # {}
          /\ search[id].results = << >>
          /\ Caller(id) \notin ctxDone )
        => search[id].phase = "returned"

\* C18 (SpecSearch): the list Search returns holds no evidence of a source
\* that had not returned when the timeout or the cancellation was selected.
C18_NoEvidenceAfterEvent ==
    \A id \in ReturnedSearches : search[id].late = 0

\* C20 (SpecSearch): the list Search returns holds no two items with the same
\* source URL and no item with an empty snippet.
C20_DeduplicatedNoEmptySnippet ==
    \A id \in ReturnedSearches :
        LET ev == search[id].acc.evidences
        IN  /\ \A a, b \in DOMAIN ev : a # b => ev[a].sourceURL # ev[b].sourceURL
            /\ \A a \in DOMAIN ev : ev[a].snippet # ""

\* Helpers of the claims about the choice of verifier.
SearchedTasks(r) ==
    { i \in DOMAIN tasks[r] : tasks[r][i].pc \in {"verifying", "releasing", "done"} }
WrittenTasks(r) ==
    { i \in DOMAIN tasks[r] : tasks[r][i].pc \in {"releasing", "done"} }

\* C11 (SpecRun): in a run of an engine with sources, a claim whose Search
\* returned no evidence is never passed to ClaimVerifier.Verify; it is passed
\* to VerifyWithoutEvidence and is tagged model_based.
C11_NoEvidenceNoEvidenceBackedCall ==
    \A r \in Runs :
        ~airGapped =>
            \A i \in SearchedTasks(r) :
                tasks[r][i].evidences = Nil =>
                    /\ "Verify" \notin SeqRange(hist[r].calls[i])
                    /\ "VerifyWithoutEvidence" \in SeqRange(hist[r].calls[i])
                    /\ i \in WrittenTasks(r) =>
                          claims[r][i].sourceType = SourceTypeModelBased

\* A returned run with a source in which a claim without evidence was
\* verified from model knowledge.
C11_Witness ==
    \E r \in Runs :
        /\ ~airGapped /\ pc[r] = "done" /\ FullRun(r)
        /\ \E i \in DOMAIN tasks[r] :
              /\ tasks[r][i].evidences = Nil
              /\ Returned(r).claims[i].status = StatusVerified
              /\ Returned(r).claims[i].sourceType = SourceTypeModelBased

\* C12 (SpecRun): in a run of an engine with sources, every claim gets at
\* most one verifier call, and a claim that finished got exactly one:
\* Verify with tag evidence_backed when Search returned evidence,
\* VerifyWithoutEvidence with tag model_based when it returned none.
C12_OneVerifierCallPerClaim ==
    \A r \in Runs :
        ~airGapped =>
            /\ \A i \in DOMAIN hist[r].calls : Len(hist[r].calls[i]) <= 1
            /\ hist[r].verifyCalls <= Len(hist[r].calls)
            /\ \A i \in WrittenTasks(r) :
                  IF tasks[r][i].evidences # Nil
                  THEN /\ hist[r].calls[i] = <<"Verify">>
                       /\ claims[r][i].sourceType = SourceTypeEvidenceBacked
                  ELSE /\ hist[r].calls[i] = <<"VerifyWithoutEvidence">>
                       /\ claims[r][i].sourceType = SourceTypeModelBased

\* A returned run with one evidence-backed and one model-based claim.
C12_Witness ==
    \E r \in Runs :
        /\ ~airGapped /\ pc[r] = "done" /\ FullRun(r)
        /\ hist[r].verifyCalls = Len(Returned(r).claims)
        /\ \E i, j \in DOMAIN Returned(r).claims :
              /\ Returned(r).claims[i].sourceType = SourceTypeEvidenceBacked
              /\ Returned(r).claims[j].sourceType = SourceTypeModelBased

\* C13 (SpecAirGapped): for an aggregator built with no available source,
\* Search returns no evidence and exactly one warning, the engine is
\* air-gapped and makes no Search call, and every verified claim of every
\* run, and every claim of every response, is tagged model_based.
C13_NoSourcesAllModelBased ==
    Len(clients) = 0 =>
        /\ airGapped
        /\ \A id \in ReturnedSearches :
              /\ search[id].acc.evidences = Nil
              /\ Len(search[id].acc.warnings) = 1
        /\ \A r \in Runs :
              /\ hist[r].searchCalls = 0
              /\ \A i \in WrittenTasks(r) :
                    claims[r][i].sourceType = SourceTypeModelBased
              /\ resp[r] # None =>
                    \A i \in DOMAIN Returned(r).claims :
                        Returned(r).claims[i].sourceType = SourceTypeModelBased

\* Search on the empty aggregator has returned, one run verified two claims
\* and a later run answered from the store.
C13_Witness ==
    /\ Len(clients) = 0
    /\ DirectCall \in ReturnedSearches
    /\ \E r, q \in Runs :
          /\ pc[r] = "done" /\ FullRun(r) /\ Len(Returned(r).claims) = 2
          /\ pc[q] = "done" /\ ~FullRun(q) /\ Len(Returned(q).claims) = 2

\* C14 (Spec): a failing SaveAnalysis or SaveClaims does not end the call
\* with an error, and the response of a full run is made of the id, hash,
\* analysis, claims and warnings the run computed before saving, whatever the
\* saves did.
C14_SaveFailureSameResponse ==
    \A r \in Runs :
        /\ hist[r].saveAnalysisCalls > 0 => pc[r] \in {"persisting_claims", "done"}
        /\ hist[r].saveClaimsCalls > 0 => pc[r] = "done"
        /\ pc[r] = "done" /\ FullRun(r) =>
              LET a == The(analysis[r])
              IN  /\ Returned(r) = Response(a, Sha256Hex(text[r]), claims[r], warnings[r])
                  /\ a = calculateAnalysis(Sha256Hex(text[r]), claims[r], a.id, a.createdAt)
                  /\ Returned(r).id = a.id
                  /\ Returned(r).documentHash = Sha256Hex(text[r])

\* A run whose lookup succeeded and whose two saves failed returned its
\* verified claim.
C14_Witness ==
    \E r \in Runs :
        /\ pc[r] = "done" /\ FullRun(r)
        /\ hist[r].lookupOK /\ hist[r].storeFailures = 2
        /\ hist[r].rowsWritten = 0
        /\ Len(Returned(r).claims) = 1

\* C15 (Spec): when GetAnalysisByHash fails, VerifyText does not fail for it
\* and does not answer from the store: it extracts, and unless extraction
\* fails it verifies, scores, calls SaveAnalysis and SaveClaims once each and
\* returns the computed response.
LookupFailed(r) == pc[r] \notin {"idle", "received"} /\ ~hist[r].lookupOK

C15_LookupFailureIsCacheMiss ==
    \A r \in Runs :
        LookupFailed(r) =>
            /\ existing[r] = None
            /\ pc[r] # "cache_hit"
            /\ pc[r] = "failed" => hist[r].extractBad
            /\ pc[r] # "extracting" => hist[r].extractCalls = 1
            /\ pc[r] = "done" =>
                  /\ hist[r].saveAnalysisCalls = 1 /\ hist[r].saveClaimsCalls = 1
                  /\ Returned(r).analysis = The(analysis[r])
                  /\ DOMAIN Returned(r).claims = DOMAIN hist[r].extracted

\* A call whose lookup failed although an analysis of its text was stored
\* ran the whole pipeline and returned.
C15_Witness ==
    \E r \in Runs :
        /\ LookupFailed(r) /\ pc[r] = "done"
        /\ hist[r].stored # {}
        /\ hist[r].extractCalls = 1 /\ hist[r].verifyCalls = 1

\* C19 (SpecCancel): once the context of a run is cancelled the run returns,
\* whatever its sources do: a Search that returns while a source has not
\* returned carries a warning, and the run ends with every claim in a final
\* status.
C19_CancelledRunReturns ==
    /\ \A r \in Runs :
          (r \in ctxDone) ~> (pc[r] \in {"done", "failed"})
    /\ [](\A id \in DOMAIN search :
             search[id].phase = "returned" /\ search[id].pending # {} =>
                 search[id].acc.warnings # Nil)
    /\ [](\A r \in Runs :
             pc[r] = "done" =>
                 \A i \in DOMAIN Returned(r).claims :
                     Returned(r).claims[i].status \in FinalStatuses)

\* A cancelled run returned two claims although a Search was left by a
\* source that never returned, with the cancellation warning in the response.
C19_Witness ==
    /\ 1 \in ctxDone /\ pc[1] = "done"
    /\ hist[1].abandoned
    /\ Len(Returned(1).claims) = 2
    /\ \A i \in DOMAIN Returned(1).claims :
          Returned(1).claims[i].status = StatusUnsupported
    /\ \E k \in DOMAIN Returned(1).warnings :
          Returned(1).warnings[k] = Warning("search", "Search cancelled")

\* The timer of the Search of every claim of run r fired while one source
\* had returned its two evidences and the other had not returned.
OneSourceTimedOutEach(r) ==
    /\ hist[r].timedOut = DOMAIN claims[r]
    /\ \A i \in DOMAIN claims[r] : Len(claims[r][i].evidences) = 2

\* C21 as stated (SpecExample): a run over three claims with two sources, one
\* returning two evidences and the other timing out in every search, returns
\* a response with exactly one warning, three claims in a final status and
\* totalClaims = 3.
C21_ExampleOneWarning ==
    pc[1] = "done" /\ FullRun(1) /\ Len(claims[1]) = 3 /\ OneSourceTimedOutEach(1) =>
        /\ Len(Returned(1).warnings) = 1
        /\ \A i \in 1..3 : Returned(1).claims[i].status \in FinalStatuses
        /\ Returned(1).analysis.totalClaims = 3

\* C21 amended (SpecExample): that response holds one timeout warning for each
\* of the three searches, three claims in a final status and totalClaims = 3.
C21_ExampleWarningPerSearch ==
    pc[1] = "done" /\ FullRun(1) /\ Len(claims[1]) = 3 /\ OneSourceTimedOutEach(1) =>
        /\ Len(Returned(1).warnings) = 3
        /\ \A k \in 1..3 :
              Returned(1).warnings[k] = Warning("search", "Some sources timed out")
        /\ \A i \in 1..3 : Returned(1).claims[i].status \in FinalStatuses
        /\ Returned(1).analysis.totalClaims = 3

\* The run of the example has returned.
C21_Witness ==
    /\ pc[1] = "done" /\ FullRun(1) /\ Len(claims[1]) = 3
    /\ OneSourceTimedOutEach(1)
    /\ Len(clients) = 2

\* The state of the run's life cycle a position of VerifyText belongs to: the
\* two store writes are both "persisting".
RunState(p) == IF p = "persisting_claims" THEN "persisting" ELSE p

StatePaths ==
    { <<"idle", "received">>,
      <<"received", "cache_hit">>, <<"cache_hit", "done">>,
      <<"received", "extracting">>, <<"extracting", "failed">>,
      <<"extracting", "verifying">>, <<"verifying", "scoring">>,
      <<"scoring", "persisting">>, <<"persisting", "done">> }

\* C22 (Spec): every step of a run stays in its state or moves along
\* received -> cache_hit -> done or received -> extracting -> verifying ->
\* scoring -> persisting -> done, or from extracting to the error return; so
\* no state is entered twice and none is skipped.
C22_RunFollowsStatePaths ==
    [][\A r \in Runs :
          \/ RunState(pc'[r]) = RunState(pc[r])
          \/ <<RunState(pc[r]), RunState(pc'[r])>> \in StatePaths]_vars

\* One call went the full path to its end, the next one the cache path.
C22_Witness ==
    /\ pc[1] = "done" /\ FullRun(1) /\ hist[1].saveClaimsCalls = 1
    /\ pc[2] = "done" /\ ~FullRun(2)

\* The body of request q is JSON whose text is empty or missing.
WithoutText(req) == req.body.json /\ (~req.body.hasText \/ req.body.text = EmptyText)

\* C23 (SpecHandler): a request whose text is empty or missing is answered
\* 400 and no engine call is made for it; the step that handles it changes
\* neither the store nor any run: no lookup, no extraction, no analysis.
C23_EmptyTextRejected ==
    /\ [](\A q \in Requests :
             http[q].phase # "none" /\ WithoutText(http[q]) =>
                 /\ http[q].phase = "answered"
                 /\ http[q].status = 400
                 /\ http[q].run = 0)
    /\ [][\A q \in Requests :
             http[q].phase = "none" /\ http'[q].phase # "none" /\ WithoutText(http'[q]) =>
                 UNCHANGED <<storeVars, runVars, searchVars>>]_vars

\* A request without text was answered, and so was one that was verified and
\* stored.
C23_Witness ==
    /\ \E q \in Requests :
          http[q].phase = "answered" /\ http[q].body = BodyWithoutText
    /\ \E q \in Requests :
          http[q].phase = "answered" /\ http[q].status = 201
    /\ Len(analysisRows) = 1

\* C24 as stated (SpecVerdict): every claim of every returned response has a
\* confidence within [0, 1] (0..100 hundredths), whatever confidence_score
\* the model's verdict holds and on every error path.
C24_ConfidenceInUnitInterval ==
    \A r \in Runs :
        pc[r] = "done" =>
            \A i \in DOMAIN Returned(r).claims :
                /\ Returned(r).claims[i].confidence >= 0
                /\ Returned(r).claims[i].confidence <= 100

\* The words the switch on result.Status knows.
KnownWords == {"verified", "mixed", "unsupported"}

\* The verifier call of claim i of run r returned after the model gave a
\* verdict that parsed.
ParsedVerdict(r, i) ==
    /\ i \in DOMAIN hist[r].verdicts
    /\ hist[r].verdicts[i].returned /\ hist[r].verdicts[i].parsed

\* The status word of the verdict claim c was judged with.
WordOf(c) == c.reasoning[2]

\* C25 (SpecVerdict): in both adjudication modes a parsed verdict whose
\* verification_status is verified, mixed or unsupported gives the status of
\* that name; any other word gives unsupported, and no error.
C25_StatusWordMapping ==
    \A r \in Runs : \A i \in DOMAIN claims[r] :
        ParsedVerdict(r, i) =>
            /\ ~hist[r].verdicts[i].err
            /\ claims[r][i].reasoning[1] = "status word"
            /\ hist[r].verdicts[i].status =
                  (IF WordOf(claims[r][i]) \in KnownWords
                   THEN WordOf(claims[r][i]) ELSE "unsupported")
            /\ claims[r][i].status = hist[r].verdicts[i].status

\* In one run the evidence-backed call of a claim was answered with a
\* known word and the knowledge-only call of the other with a word in
\* another case.
C25_Witness ==
    /\ pc[1] = "done"
    /\ \E i, j \in DOMAIN claims[1] :
          /\ ParsedVerdict(1, i) /\ ParsedVerdict(1, j)
          /\ hist[1].calls[i] = <<"Verify">>
          /\ hist[1].calls[j] = <<"VerifyWithoutEvidence">>
          /\ WordOf(claims[1][i]) = "mixed"
          /\ WordOf(claims[1][j]) = "Verified"
          /\ claims[1][i].status = StatusMixed
          /\ claims[1][j].status = StatusUnsupported

\* C26 (SpecConcurrent): each run admits up to 5 claims of its own, and a
\* claim waiting for admission in a run with fewer than 5 claims in flight
\* can be admitted whatever the claims of the other runs do.
C26_SemaphorePerRun ==
    \A r \in Runs :
        /\ Cardinality(InFlight(r)) <= 5
        /\ \A i \in DOMAIN tasks[r] :
              pc[r] = "verifying" /\ tasks[r][i].pc = "queued"
                  /\ Cardinality(InFlight(r)) < 5
                  => ENABLED Acquire(r, i)

\* Ten claims are in flight at once, five of each run, the sixth claim of
\* the first run among them after an earlier one of that run finished.
C26_Witness ==
    /\ Cardinality(InFlight(1)) = 5 /\ Cardinality(InFlight(2)) = 5
    /\ \E i \in DOMAIN tasks[1] : tasks[1][i].pc = "done"

\* Runs a and b, on the same text, both missed the cache and both returned
\* after extraction, verification and their two saves.
BothRanInFull(a, b) ==
    /\ a # b /\ pc[a] = "done" /\ pc[b] = "done"
    /\ text[a] = text[b]
    /\ FullRun(a) /\ FullRun(b)
    /\ hist[a].extractCalls = 1 /\ hist[b].extractCalls = 1
    /\ hist[a].saveClaimsCalls = 1 /\ hist[b].saveClaimsCalls = 1

RowsOf(id) == { k \in DOMAIN analysisRows : analysisRows[k].id = id }

\* C27 (SpecRace): two concurrent runs on one text that both missed the cache
\* leave two stored AnalysisResults with that text's documentHash and
\* different ids, each returned by its run; and a run fails only when its
\* own extraction failed.
C27_NoSingleFlight ==
    /\ \A a, b \in Runs :
          BothRanInFull(a, b) =>
              /\ Returned(a).id # Returned(b).id
              /\ \E k \in RowsOf(Returned(a).id), j \in RowsOf(Returned(b).id) :
                    /\ k # j
                    /\ analysisRows[k].documentHash = Sha256Hex(text[a])
                    /\ analysisRows[j].documentHash = Sha256Hex(text[a])
    /\ \A r \in Runs : pc[r] = "failed" => hist[r].extractBad

\* Two runs on the same text both ran in full and both stored their result.
C27_Witness ==
    /\ BothRanInFull(1, 2)
    /\ Cardinality({ k \in DOMAIN analysisRows :
                       analysisRows[k].documentHash = Sha256Hex(text[1]) }) >= 2
    /\ Len(claimRows) >= 2

\* C28 (SpecRun): the warnings of the response of a run with sources are, as a
\* multiset, the warnings the aggregator returned for the claims of the run,
\* one Search per claim: none is lost and none occurs more often.
C28_WarningsAreUnionOfSearches ==
    \A r \in Runs :
        pc[r] = "done" /\ FullRun(r) /\ ~airGapped =>
            /\ hist[r].searchCalls = Len(claims[r])
            /\ BagOfSeq(Returned(r).warnings) = hist[r].searched

\* The searches of two claims returned different warnings, the second
\* claim's task finishing before the first one's.
C28_Witness ==
    /\ pc[1] = "done" /\ FullRun(1) /\ ~airGapped /\ Len(claims[1]) = 2
    /\ Len(Returned(1).warnings) = 2
    /\ Returned(1).warnings[1] # Returned(1).warnings[2]
    /\ hist[1].overtaken

\* The fields of a claim its verification task does not touch.
Identity(c) == [id |-> c.id, text |-> c.text, sentenceIndex |-> c.sentenceIndex]

\* The goroutine of claim i of run r takes the step that writes its result.
Finalises(r, i) ==
    /\ pc[r] = "verifying"
    /\ tasks[r][i].pc = "verifying" /\ tasks'[r][i].pc = "releasing"

\* C29 (SpecRun): once a run has its claims, a claim changes only in the step
\* in which its own task writes its result, which keeps the claim's identity
\* and leaves every other claim as it is; a task that has written never
\* writes again, and no claim changes once verifyClaims has returned.
C29_SlotWrittenOnceByOwnTask ==
    [][\A r \in Runs :
          pc[r] \in {"verifying", "scoring", "persisting", "persisting_claims", "done"} =>
              /\ DOMAIN claims'[r] = DOMAIN claims[r]
              /\ \A i \in DOMAIN claims[r] :
                    /\ claims'[r][i] # claims[r][i] =>
                          /\ Finalises(r, i)
                          /\ claims[r][i].status = StatusPending
                          /\ Identity(claims'[r][i]) = Identity(claims[r][i])
                          /\ \A j \in DOMAIN claims[r] \ {i} : claims'[r][j] = claims[r][j]
                    /\ tasks[r][i].pc \in {"releasing", "done"} =>
                          tasks'[r][i].pc \in {"releasing", "done"}
              /\ PastWait(r) => claims'[r] = claims[r]]_vars

\* A run over two claims returned after the second claim's task wrote its
\* result before the first one's, and both results were stored.
C29_Witness ==
    /\ pc[1] = "done" /\ FullRun(1) /\ Len(claims[1]) = 2
    /\ hist[1].overtaken
    /\ \A i \in DOMAIN claims[1] : claims[1][i].status \in FinalStatuses
    /\ hist[1].rowsWritten = 3

\* C30 (Spec): a call that found its text in the store returns without an
\* extraction, a search, a verifier call or a save, writes no row, and its
\* response has no warnings; the steps of such a call leave both tables as
\* they are.
C30_CacheHitDoesNoWork ==
    /\ [](\A r \in Runs :
             pc[r] = "done" /\ ~FullRun(r) =>
                 /\ hist[r].extractCalls = 0
                 /\ hist[r].searchCalls = 0 /\ hist[r].verifyCalls = 0
                 /\ hist[r].saveAnalysisCalls = 0 /\ hist[r].saveClaimsCalls = 0
                 /\ hist[r].rowsWritten = 0
                 /\ Returned(r).warnings = Nil
                 /\ Returned(r).id = The(existing[r]).id)
    /\ [][\A r \in Runs :
             pc'[r] = "cache_hit" \/ pc[r] = "cache_hit" =>
                 UNCHANGED <<analysisRows, claimRows>>]_vars

\* A call returned a stored analysis with its claim, after the call that
\* stored them had returned a warning.
C30_Witness ==
    /\ pc[1] = "done" /\ FullRun(1) /\ Returned(1).warnings # Nil
    /\ pc[2] = "done" /\ ~FullRun(2)
    /\ text[2] = text[1]
    /\ Len(Returned(2).claims) = 1
    /\ Len(analysisRows) = 1 /\ Len(claimRows) = 1

\* ---------------------------------------------------------------- C31
\* The parts of a parsed response: an object between a text before and a
\* text after it.
ObjectBetween(t, inside) ==
    \E i \in 1..Len(t) : \E j \in i..Len(t) :
        /\ IsObject(SubSeq(t, i, j))
        /\ \A k \in (1..(i - 1)) \cup ((j + 1)..Len(t)) : t[k] \in inside

\* A fence, an object, a fence.
ObjectInFence(t) ==
    /\ Len(t) >= 4
    /\ t[1] = "F" /\ t[Len(t)] = "F"
    /\ IsObject(SubSeq(t, 2, Len(t) - 1))

\* The text from the first opening to the last closing brace, if any.
BraceSpan(t) ==
    IF Index(t, "{") >= 0 /\ LastIndex(t, "}") > Index(t, "{")
    THEN {SubSeq(t, Index(t, "{") + 1, LastIndex(t, "}") + 1)}
    ELSE {}

Parsed == parse.by # "none"

C32_VerifyClaimsTerminates ==
    /\ <>(pc[1] = "scoring")
    /\ [](/\ semaphore[1] <= SemaphoreCap
          /\ semaphore[1] = Cardinality({ i \in DOMAIN tasks[1] :
                               tasks[1][i].pc \in {"searching", "verifying", "releasing"} }))
    /\ [](pc[1] = "scoring" =>
            /\ semaphore[1] = 0
            /\ wg[1] = 0
            /\ \A i \in DOMAIN tasks[1] : tasks[1][i].pc = "done")

\* verifyClaims returned for more claims than the semaphore has permits,
\* one of them a claim whose verifier call failed, with no permit held.
C32_Witness ==
    /\ pc[1] = "scoring"
    /\ Len(claims[1]) > SemaphoreCap
    /\ \E i \in DOMAIN claims[1] : hist[1].verdicts[i].err
    /\ semaphore[1] = 0

\* ---------------------------------------------------------------- C33
\* C33 (SpecRun): in the response of a full run a claim is tagged
\* evidence_backed exactly when its evidences list is not empty, and
\* model_based otherwise, whether its verifier call answered or failed.
C33_SourceTypeMatchesEvidences ==
    \A r \in Runs :
        pc[r] = "done" /\ FullRun(r) =>
            \A i \in DOMAIN Returned(r).claims :
                LET c == Returned(r).claims[i]
                IN  /\ c.sourceType \in {SourceTypeEvidenceBacked, SourceTypeModelBased}
                    /\ c.sourceType = SourceTypeEvidenceBacked <=> Len(c.evidences) > 0
                    /\ c.sourceType = SourceTypeModelBased => c.evidences = Nil

\* A sourced engine returned a claim tagged model_based whose fallback call
\* failed, next to a claim tagged evidence_backed with its evidence.
C33_Witness ==
    \E r \in Runs :
        /\ pc[r] = "done" /\ FullRun(r) /\ ~airGapped
        /\ \E i, j \in DOMAIN Returned(r).claims :
              /\ Returned(r).claims[i].sourceType = SourceTypeModelBased
              /\ hist[r].verdicts[i].err
              /\ Returned(r).claims[j].sourceType = SourceTypeEvidenceBacked
              /\ Len(Returned(r).claims[j].evidences) > 0

\* ---------------------------------------------------------------- C34
\* C34 (Spec): the response of a cache hit holds as many claims as the
\* totalClaims of the AnalysisResult it returns, whatever store calls failed
\* in the runs before it or in the hit itself.
C34_CacheHitClaimCount ==
    \A r \in Runs :
        pc[r] = "done" /\ ~FullRun(r) =>
            Len(Returned(r).claims) = Returned(r).analysis.totalClaims

\* ---------------------------------------------------------------- C35
\* The ids of a claims list, in its order.
IdsOf(cl) == [i \in DOMAIN cl |-> cl[i].id]

\* C35 (SpecRoundTrip): the claims of a cache hit's response are the claims
\* of the response of the run that persisted the analysis, with the same ids
\* in the same order, whatever sentence indices the claims carry.
C35_CacheRoundTripOrder ==
    \A p, r \in Runs :
        /\ pc[p] = "done" /\ FullRun(p)
        /\ pc[r] = "done" /\ ~FullRun(r)
        /\ Returned(r).id = Returned(p).id
        => IdsOf(Returned(r).claims) = IdsOf(Returned(p).claims)

\* ---------------------------------------------------------------- C36
\* C36 (Spec): every row of table claims carries the id of a row of table
\* analysis_results, after any sequence of runs and store failures.
C36_NoOrphanClaimRows ==
    \A k \in DOMAIN claimRows :
        \E j \in DOMAIN analysisRows : analysisRows[j].id = claimRows[k].analysisId

\* ---------------------------------------------------------------- C37
\* The sources whose goroutine stands at its send on the results channel.
AtSend(id) == { e.source : e \in search[id].sending }

\* C37 (SpecChannel): in every state, also after Search returned, the send
\* of every source goroutine that has its result can proceed, the results in
\* the channel never outnumber the sources, and a goroutine at its send
\* completes it and ends.
C37_SourceSendCompletes ==
    /\ [](\A id \in DOMAIN search :
             /\ \A s \in AtSend(id) : ENABLED SendStep(s)
             /\ Len(search[id].results) + Cardinality(AtSend(id)) <= Len(clients))
    /\ \A s \in SourceNames :
          (DirectCall \in DOMAIN search /\ s \in AtSend(DirectCall))
              ~> (DirectCall \in DOMAIN search /\ s \notin search[DirectCall].pending)

\* Search returned without a result from either of its two sources, after
\* the timeout and the cancellation, and both sources completed their sends
\* afterwards.
C37_Witness ==
    /\ DirectCall \in DOMAIN search
    /\ search[DirectCall].phase = "returned"
    /\ search[DirectCall].event
    /\ search[DirectCall].n = 2
    /\ search[DirectCall].lateSends = 2
    /\ search[DirectCall].pending = {}

\* ---------------------------------------------------------------- C38
\* C38 (SpecAirGapped): an engine built without sources is air-gapped, and
\* no run of it calls the aggregator's Search: no goroutine of a run is ever
\* in a search, each claim gets a single verifier call, the knowledge-only
\* one, made when the goroutine has its permit, and the warnings of the run
\* and of its response stay empty.
C38_AirGappedNeverSearches ==
    Len(clients) = 0 =>
        /\ airGapped
        /\ \A id \in DOMAIN search : Caller(id) \notin Runs
        /\ \A r \in Runs :
              /\ hist[r].searchCalls = 0
              /\ hist[r].searched = EmptyBag
              /\ warnings[r] = Nil
              /\ \A i \in DOMAIN tasks[r] :
                    /\ tasks[r][i].pc # "searching"
                    /\ tasks[r][i].evidences = Nil
                    /\ hist[r].calls[i] =
                          IF tasks[r][i].pc = "queued" THEN << >>
                          ELSE <<"VerifyWithoutEvidence">>
              /\ resp[r] # None => Returned(r).warnings = Nil

\* The aggregator of the air-gapped engine, called directly, returned its
\* warning, while a full run over two claims, one of them with a failed
\* verifier call, returned a response without warnings.
C38_Witness ==
    /\ airGapped
    /\ DirectCall \in ReturnedSearches
    /\ Len(search[DirectCall].acc.warnings) = 1
    /\ \E r \in Runs :
          /\ pc[r] = "done" /\ FullRun(r)
          /\ Len(Returned(r).claims) = 2
          /\ hist[r].verifyCalls = 2
          /\ SomeVerdict(r, TRUE)
          /\ Returned(r).warnings = Nil

====
